---------------------------- MODULE Spec2Model ----------------------------
(***************************************************************************)
(* A model of the InsPyre colorize package: the colour conversions         *)
(* (colorize/convert), the ANSI encode / strip functions and the gradient  *)
(* renderers (colorize/__funcs.py and the older __src variants).           *)
(*                                                                         *)
(* Representation.                                                         *)
(*  - A Python str is a sequence of one-character strings; the control     *)
(*    byte 0x1B is the element ESC.                                        *)
(*  - A call is recorded in the state as (op, arg, ret): the name of the   *)
(*    function last called, its input, and what it returned or raised;     *)
(*    prev is what the call before it returned, when calls are chained.    *)
(*    ret is a record [status, value]; status is "ok" or the name of the   *)
(*    Python exception that left the function.                             *)
(*  - The percentages and degrees returned by rgb_to_hsl / rgb_to_hsv /    *)
(*    rgb_to_cmyk are held in hundredths (decimal_places = 2, the default):*)
(*    the value 30.12 is the integer 3012.  The quotients are computed     *)
(*    exactly and then rounded half-to-even, as round() does.              *)
(***************************************************************************)
EXTENDS Integers, Sequences, FiniteSets, TLC

VARIABLES op, arg, prev, ret, obj, constructed, calls, before, peer

vars == <<op, arg, prev, ret, obj, constructed, calls, before, peer>>

\* The PredefinedColor object the method calls act on, the string it was
\* constructed from, the number of calls made, the object as it was before
\* the last call, and a second PredefinedColor instance.
object == <<obj, constructed, calls, before, peer>>

(***************************************************************************)
(* Bounds of the model.                                                    *)
(***************************************************************************)
\* RGB channels exercised by the conversion actions: every multiple of
\* ChanStep in 0..255, plus 255 itself.
ChanStep == 15
\* Longest hex string handed to hex_to_rgb.
MaxHexLen == 7

Channels == {c \in 0..255 : c % ChanStep = 0 \/ c = 255}
RGBs == {<<r, g, b>> : r \in Channels, g \in Channels, b \in Channels}
\* Grey triples, black and white included.
Greys == {<<c, c, c>> : c \in Channels}

(***************************************************************************)
(* Results.                                                                *)
(***************************************************************************)
NoValue == <<>>
Ok(v)     == [status |-> "ok", value |-> v]
Raise(e)  == [status |-> e, value |-> NoValue]
Idle      == [status |-> "none", value |-> NoValue]

\* None
NoneValue == [type |-> "NoneType", value |-> NoValue]

(***************************************************************************)
(* Arithmetic helpers.                                                     *)
(***************************************************************************)
Abs(x) == IF x < 0 THEN -x ELSE x
Max2(a, b) == IF a >= b THEN a ELSE b
Min2(a, b) == IF a <= b THEN a ELSE b
Max3(a, b, c) == Max2(a, Max2(b, c))
Min3(a, b, c) == Min2(a, Min2(b, c))

\* round(n / d) for d > 0, ties to the even integer (Python's round()).
RoundHalfEven(n, d) ==
    LET q == n \div d
        r == n % d
    IN  IF 2 * r < d THEN q
        ELSE IF 2 * r > d THEN q + 1
        ELSE IF q % 2 = 0 THEN q ELSE q + 1

(***************************************************************************)
(* Python float arithmetic (IEEE 754 binary64, round to nearest, ties to   *)
(* even) for the magnitudes the gradients compute.                         *)
(* A non-negative value below 2^12 with at most 60 fraction bits is the    *)
(* tuple <<i, f1, f2, f3>> = i + f1/2^20 + f2/2^40 + f3/2^60, each f a     *)
(* limb in 0..2^20-1.  Every float that occurs (quotients of channel       *)
(* differences, their products with an index, their sums with a channel)   *)
(* is at least 2^-7 or an exact difference, so 60 fraction bits hold its   *)
(* 53 significant bits.                                                    *)
(***************************************************************************)
\* 2^20, the base of a limb.
LimbBase == 1048576
\* Significant bits of a binary64 float.
Precision == 53
\* Fraction bits held by the three limbs.
FracBits == 60

RECURSIVE Pow2(_)
Pow2(k) == IF k = 0 THEN 1 ELSE 2 * Pow2(k - 1)

RECURSIVE BitLen(_)
\* Number of bits of n >= 0 (0 for 0).
BitLen(n) == IF n = 0 THEN 0 ELSE 1 + BitLen(n \div 2)

FxInt(n) == <<n, 0, 0, 0>>
FxZero == FxInt(0)

\* Carries (or borrows) propagated from the low limb upwards.
FxNorm(i, a1, a2, a3) ==
    LET b2 == a2 + (a3 \div LimbBase)
        b1 == a1 + (b2 \div LimbBase)
    IN  <<i + (b1 \div LimbBase), b1 % LimbBase, b2 % LimbBase, a3 % LimbBase>>

FxAdd(x, y) == FxNorm(x[1] + y[1], x[2] + y[2], x[3] + y[3], x[4] + y[4])
\* x - y for x >= y.
FxSub(x, y) == FxNorm(x[1] - y[1], x[2] - y[2], x[3] - y[3], x[4] - y[4])
\* x * c for a small integer c >= 0.
FxMulInt(x, c) == FxNorm(x[1] * c, x[2] * c, x[3] * c, x[4] * c)

FxGeq(x, y) ==
    IF x[1] # y[1] THEN x[1] > y[1]
    ELSE IF x[2] # y[2] THEN x[2] > y[2]
    ELSE IF x[3] # y[3] THEN x[3] > y[3]
    ELSE x[4] >= y[4]

\* Number of fraction bits a float of this magnitude keeps: Precision less
\* the bits of the integer part, or Precision - 1 past the leading fraction
\* bit.
KeptFracBits(x) ==
    IF x[1] > 0 THEN Precision - BitLen(x[1])
    ELSE IF x[2] > 0 THEN (21 - BitLen(x[2])) + (Precision - 1)
    ELSE IF x[3] > 0 THEN (41 - BitLen(x[3])) + (Precision - 1)
    ELSE (61 - BitLen(x[4])) + (Precision - 1)

\* The float nearest to x + (a positive amount below 2^-60 when sticky),
\* ties to even.  Values that keep all 60 fraction bits are exact.
Round53(x, sticky) ==
    LET keep == KeptFracBits(x)
        u == Pow2(FracBits - keep)      \* weight of the last kept bit
        low == x[4] % u
        kept == x[4] - low
        odd == (kept \div u) % 2 = 1
        up == \/ 2 * low > u
              \/ 2 * low = u /\ (sticky \/ odd)
    IN  IF x = FxZero \/ keep >= FracBits THEN x
        ELSE IF up THEN FxNorm(x[1], x[2], x[3], kept + u)
        ELSE <<x[1], x[2], x[3], kept>>

RECURSIVE DivIntPart(_, _, _, _)
\* Long division, integer part: <<quotient, remainder>> of r by x, the
\* quotient below 2^(k + 1).
DivIntPart(r, x, k, q) ==
    IF k < 0 THEN <<q, r>>
    ELSE LET xk == FxMulInt(x, Pow2(k))
         IN  IF FxGeq(r, xk)
             THEN DivIntPart(FxSub(r, xk), x, k - 1, q + Pow2(k))
             ELSE DivIntPart(r, x, k - 1, q)

RECURSIVE DivFracPart(_, _, _, _)
\* Long division, fraction part: the next `bits` quotient bits, shifted
\* into the limb, and the remainder after them.
DivFracPart(r, x, bits, limb) ==
    IF bits = 0 THEN <<limb, r>>
    ELSE LET r2 == FxMulInt(r, 2)
             bit == IF FxGeq(r2, x) THEN 1 ELSE 0
             rest == IF bit = 1 THEN FxSub(r2, x) ELSE r2
         IN  DivFracPart(rest, x, bits - 1, 2 * limb + bit)

\* The float n / x for an integer 0 <= n < 2^9 and a float x >= 1
\* (true division is correctly rounded): the integer part, then the three
\* limbs of 20 fraction bits each.
FDiv(n, x) ==
    LET ip == DivIntPart(FxInt(n), x, 8, 0)
        f1 == DivFracPart(ip[2], x, 20, 0)
        f2 == DivFracPart(f1[2], x, 20, 0)
        f3 == DivFracPart(f2[2], x, 20, 0)
    IN  Round53(<<ip[1], f1[1], f2[1], f3[1]>>, f3[2] # FxZero)

\* The float n / d for integers n >= 0 and 0 < d < 2^11: the quotient limb
\* by limb, then rounded (the value of FDiv(n, FxInt(d))).
FDivInt(n, d) ==
    LET r0 == n % d
        r1 == (r0 * LimbBase) % d
        r2 == (r1 * LimbBase) % d
        r3 == (r2 * LimbBase) % d
    IN  Round53(<<n \div d, (r0 * LimbBase) \div d, (r1 * LimbBase) \div d,
                  (r2 * LimbBase) \div d>>, r3 # 0)

\* The float x * j for an integer j >= 0.
FMulInt(x, j) == Round53(FxMulInt(x, j), FALSE)

\* int(start + sign * p) for an int start >= 0 and a float magnitude p:
\* the float sum, truncated towards zero.
IntOfSum(start, negative, p) ==
    IF ~negative THEN Round53(FxAdd(FxInt(start), p), FALSE)[1]
    ELSE IF FxGeq(FxInt(start), p)
         THEN Round53(FxSub(FxInt(start), p), FALSE)[1]
         ELSE 0 - Round53(FxSub(p, FxInt(start)), FALSE)[1]

\* The float (end - start) / span as [neg, mag].
StepOf(start, end, span) ==
    [neg |-> end < start, mag |-> FDiv(Abs(end - start), span)]

\* The channel of the position after j (an index counted from 1).
ChannelAtNextIndex(start, step, j) ==
    IntOfSum(start, step.neg, FMulInt(step.mag, j + 1))

\* int(start + step * j)
ChannelAt(start, step, j) == IntOfSum(start, step.neg, FMulInt(step.mag, j))

(***************************************************************************)
(* colorize/__utils.py                                                     *)
(***************************************************************************)
\* verify_rgb_number_value on an int channel: "ok" or the exception raised.
verify_rgb_number_value(value) ==
    IF 0 <= value /\ value <= 255 THEN "ok" ELSE "ValueError"

\* normalize_rgb leaves int channels as they are.
normalize_rgb(rgb) == rgb

\* The first failure of the per-channel verification loop, or "ok".
VerifyRgbTriple(rgb) ==
    IF verify_rgb_number_value(rgb[1]) # "ok" THEN verify_rgb_number_value(rgb[1])
    ELSE IF verify_rgb_number_value(rgb[2]) # "ok" THEN verify_rgb_number_value(rgb[2])
    ELSE verify_rgb_number_value(rgb[3])

(***************************************************************************)
(* colorize/convert/__convert_to_hsl.py : rgb_to_hsl                       *)
(* With r, g, b integers, max, min and delta are kept scaled by 255.       *)
(* The saturation is computed BEFORE the delta = 0 test, as in the source: *)
(* the float division raises ZeroDivisionError when 1 - |2L - 1| is 0.     *)
(***************************************************************************)
\* Hue in hundredths of a degree, from the sector of the maximum channel.
HueOf(r, g, b, maxv, delta) ==
    LET sixths ==    \* hue / 60, as the fraction num / delta
            IF delta = 0 THEN [num |-> 0, den |-> 1]
            ELSE IF maxv = r
                 THEN [num |-> (g - b) % (6 * delta), den |-> delta]
            ELSE IF maxv = g
                 THEN [num |-> (b - r) + 2 * delta, den |-> delta]
            ELSE [num |-> (r - g) + 4 * delta, den |-> delta]
        wrapped == IF sixths.num < 0
                   THEN sixths.num + 6 * sixths.den ELSE sixths.num
    IN  RoundHalfEven(6000 * wrapped, sixths.den)

rgb_to_hsl(rgb) ==
    LET n == normalize_rgb(rgb)
        r == n[1]
        g == n[2]
        b == n[3]
        maxv == Max3(r, g, b)
        minv == Min3(r, g, b)
        delta == maxv - minv
        \* 255 * (1 - |2 * lightness - 1|)
        denom == 255 - Abs(maxv + minv - 255)
    IN  IF VerifyRgbTriple(n) # "ok" THEN Raise(VerifyRgbTriple(n))
        ELSE IF denom = 0 THEN Raise("ZeroDivisionError")
        ELSE Ok(<<HueOf(r, g, b, maxv, delta),
                  RoundHalfEven(10000 * delta, denom),
                  RoundHalfEven(10000 * (maxv + minv), 2 * 255)>>)

(***************************************************************************)
(* colorize/convert/__convert_to_hsv.py : rgb_to_hsv                       *)
(***************************************************************************)
rgb_to_hsv(rgb) ==
    LET n == normalize_rgb(rgb)
        r == n[1]
        g == n[2]
        b == n[3]
        maxv == Max3(r, g, b)
        minv == Min3(r, g, b)
        delta == maxv - minv
    IN  IF VerifyRgbTriple(n) # "ok" THEN Raise(VerifyRgbTriple(n))
        ELSE IF maxv = 0 THEN Raise("ZeroDivisionError")
        ELSE Ok(<<HueOf(r, g, b, maxv, delta),
                  RoundHalfEven(10000 * delta, maxv),
                  RoundHalfEven(10000 * maxv, 255)>>)

(***************************************************************************)
(* colorize/convert/__convert_to_cmyk.py : rgb_to_cmyk                     *)
(* k = 1 - max/255; c = (1 - r/255 - k) / (1 - k) * 100, and 1 - k is 0    *)
(* exactly when the largest channel is 0.                                  *)
(***************************************************************************)
rgb_to_cmyk(rgb) ==
    LET n == normalize_rgb(rgb)
        r == n[1]
        g == n[2]
        b == n[3]
        maxv == Max3(r, g, b)
    IN  IF VerifyRgbTriple(n) # "ok" THEN Raise(VerifyRgbTriple(n))
        ELSE IF maxv = 0 THEN Raise("ZeroDivisionError")
        ELSE Ok(<<RoundHalfEven(10000 * (maxv - r), maxv),
                  RoundHalfEven(10000 * (maxv - g), maxv),
                  RoundHalfEven(10000 * (maxv - b), maxv),
                  RoundHalfEven(10000 * (255 - maxv), 255)>>)

(***************************************************************************)
(* Python built-ins used by the conversions.                               *)
(***************************************************************************)
HexDigits == <<"0", "1", "2", "3", "4", "5", "6", "7",
               "8", "9", "a", "b", "c", "d", "e", "f">>
UpperHex == <<"A", "B", "C", "D", "E", "F">>

\* str.lower() on one character (only the hex letters have an upper form here).
Lower(c) ==
    IF \E i \in 1..6 : UpperHex[i] = c
    THEN HexDigits[10 + (CHOOSE i \in 1..6 : UpperHex[i] = c)]
    ELSE c

\* Largest value verify_hex_number_value accepts (0xFFFFFF).
HexMax == 16777215

IsDigit(c, base) == \E i \in 1..base : HexDigits[i] = Lower(c)
DigitVal(c) == (CHOOSE i \in 1..16 : HexDigits[i] = Lower(c)) - 1

\* The value of a run of digits, most significant first.  Values above
\* HexMax are held at HexMax + 1: nothing but the comparison with HexMax
\* is ever made of them.
RECURSIVE DigitsVal(_, _, _)
DigitsVal(s, base, acc) ==
    IF s = <<>> THEN acc
    ELSE DigitsVal(Tail(s), base,
                   Min2(acc * base + DigitVal(Head(s)), HexMax + 1))

AllDigits(s, base) == \A i \in 1..Len(s) : IsDigit(s[i], base)

\* int(s, base): an optional sign, for base 16 an optional 0x / 0X prefix,
\* then at least one digit and nothing else.  [ok, val]; ok = FALSE is the
\* ValueError "invalid literal for int()".
PyInt(s, base) ==
    LET signed == s # <<>> /\ Head(s) \in {"+", "-"}
        body == IF signed THEN Tail(s) ELSE s
        prefixed == /\ base = 16
                    /\ Len(body) >= 2
                    /\ body[1] = "0"
                    /\ Lower(body[2]) = "x"
        digits == IF prefixed THEN SubSeq(body, 3, Len(body)) ELSE body
    IN  IF digits = <<>> \/ ~AllDigits(digits, base)
        THEN [ok |-> FALSE, val |-> 0]
        ELSE [ok |-> TRUE,
              val |-> IF signed /\ Head(s) = "-"
                      THEN 0 - DigitsVal(digits, base, 0)
                      ELSE DigitsVal(digits, base, 0)]

\* str.lstrip(c): every leading c is removed.
RECURSIVE LStrip(_, _)
LStrip(s, c) ==
    IF s # <<>> /\ Head(s) = c THEN LStrip(Tail(s), c) ELSE s

\* s[a:b] with 0-based a and exclusive b, clipped to the string as Python does.
Slice(s, a, b) == SubSeq(s, a + 1, Min2(b, Len(s)))

\* The digits of n >= 0 in the given base, most significant first ("0" for 0).
RECURSIVE ToDigits(_, _)
ToDigits(n, base) ==
    IF n < base THEN <<HexDigits[n + 1]>>
    ELSE Append(ToDigits(n \div base, base), HexDigits[(n % base) + 1])

\* A format without the zero padding ("x" in place of "02x").
Format02xNoPad(n) == ToDigits(n, 16)

\* format(n, "02x"): lowercase hex, padded with zeros to at least 2 digits.
Format02x(n) ==
    LET d == ToDigits(n, 16)
    IN  IF Len(d) < 2 THEN <<"0">> \o d ELSE d

(***************************************************************************)
(* colorize/__utils.py : verify_hex_number_value                           *)
(***************************************************************************)
verify_hex_number_value(value) ==
    LET n == PyInt(LStrip(value, "#"), 16)
    IN  IF ~n.ok THEN "ValueError"
        ELSE IF ~(0 <= n.val /\ n.val <= HexMax) THEN "ValueError"
        ELSE "ok"

(***************************************************************************)
(* colorize/convert/__convert_to_hex.py : rgb_to_hex                       *)
(* Both branches of the include_hashtag test return the same f-string.     *)
(***************************************************************************)
rgb_to_hex(rgb, include_hashtag) ==
    LET n == normalize_rgb(rgb)
    IN  IF VerifyRgbTriple(n) # "ok" THEN Raise(VerifyRgbTriple(n))
        ELSE IF include_hashtag
             THEN Ok(Format02x(n[1]) \o Format02x(n[2]) \o Format02x(n[3]))
             ELSE Ok(Format02x(n[1]) \o Format02x(n[2]) \o Format02x(n[3]))

(***************************************************************************)
(* __src/colorize/convert/__convert_to_rgb.py : hex_to_rgb                 *)
(***************************************************************************)
hex_to_rgb(hex_) ==
    LET h == LStrip(hex_, "#")
        r == PyInt(Slice(h, 0, 2), 16)
        g == PyInt(Slice(h, 2, 4), 16)
        b == PyInt(Slice(h, 4, Len(h)), 16)
    IN  IF verify_hex_number_value(hex_) # "ok"
        THEN Raise(verify_hex_number_value(hex_))
        ELSE IF ~r.ok \/ ~g.ok \/ ~b.ok THEN Raise("ValueError")
        ELSE Ok(<<r.val, g.val, b.val>>)

(***************************************************************************)
(* colorize/__utils.py : verify_hsl_value, verify_hsv_value                *)
(* The arguments are the three floats the caller of the verifier passes.   *)
(* hsl_to_rgb and hsv_to_rgb pass hue / 60 and percent / 100, so the       *)
(* verifier is given here the numerators: hue, saturation and the third    *)
(* component as num / den.                                                 *)
(***************************************************************************)
verify_hsl_value(hue, saturation, lightness) ==
    IF hue.num < 0 \/ hue.num > 360 * hue.den THEN "ValueError"
    ELSE IF saturation.num < 0 \/ saturation.num > 100 * saturation.den
         THEN "ValueError"
    ELSE IF lightness.num < 0 \/ lightness.num > 100 * lightness.den
         THEN "ValueError"
    ELSE "ok"

verify_hsv_value(hue, saturation, value) ==
    IF hue.num < 0 \/ hue.num > 360 * hue.den THEN "ValueError"
    ELSE IF saturation.num < 0 \/ saturation.num > 100 * saturation.den
         THEN "ValueError"
    ELSE IF value.num < 0 \/ value.num > 100 * value.den
         THEN "ValueError"
    ELSE "ok"

Frac(n, d) == [num |-> n, den |-> d]

(***************************************************************************)
(* colorize/convert/__helpers.py : hue_to_rgb                              *)
(* h is the hue divided by 60, given as the hue in degrees; c and x are    *)
(* the chroma and the middle component.                                    *)
(***************************************************************************)
hue_to_rgb(hue, c, x) ==
    IF 0 <= hue /\ hue < 60 THEN <<c, x, 0>>
    ELSE IF 60 <= hue /\ hue < 120 THEN <<x, c, 0>>
    ELSE IF 120 <= hue /\ hue < 180 THEN <<0, c, x>>
    ELSE IF 180 <= hue /\ hue < 240 THEN <<0, x, c>>
    ELSE IF 240 <= hue /\ hue < 300 THEN <<x, 0, c>>
    ELSE <<c, 0, x>>

(***************************************************************************)
(* __src/colorize/convert/__convert_to_rgb.py : hsl_to_rgb, hsv_to_rgb     *)
(* The inputs are whole degrees and whole percents (Python ints).  The     *)
(* code divides them by 60 and by 100 and hands the QUOTIENTS to the       *)
(* verifier.  Chroma, middle component and adjustment are kept as          *)
(* numerators over 600000; a channel is round(255 * numerator / 600000).   *)
(***************************************************************************)
hsl_to_rgb(hsl) ==
    LET hue == hsl[1]
        s == hsl[2]
        l == hsl[3]
        check == verify_hsl_value(Frac(hue, 60), Frac(s, 100), Frac(l, 100))
        t == 100 - Abs(2 * l - 100)          \* 100 * (1 - |2l - 1|)
        f == 60 - Abs((hue % 120) - 60)      \* 60 * (1 - |h % 2 - 1|)
        chroma == s * t * 60
        middle_component == s * t * f
        adjustment_factor == l * 6000 - s * t * 30
        rgb == hue_to_rgb(hue, chroma, middle_component)
    IN  IF check # "ok" THEN Raise(check)
        ELSE Ok(<<RoundHalfEven((rgb[1] + adjustment_factor) * 17, 40000),
                  RoundHalfEven((rgb[2] + adjustment_factor) * 17, 40000),
                  RoundHalfEven((rgb[3] + adjustment_factor) * 17, 40000)>>)

hsv_to_rgb(hsv) ==
    LET hue == hsv[1]
        s == hsv[2]
        v == hsv[3]
        check == verify_hsv_value(Frac(hue, 60), Frac(s, 100), Frac(v, 100))
        f == 60 - Abs((hue % 120) - 60)
        chroma == v * s * 60
        middle_component == v * s * f
        adjustment_factor == (v * 100 - v * s) * 60
        rgb == hue_to_rgb(hue, chroma, middle_component)
    IN  IF check # "ok" THEN Raise(check)
        ELSE Ok(<<RoundHalfEven((rgb[1] + adjustment_factor) * 17, 40000),
                  RoundHalfEven((rgb[2] + adjustment_factor) * 17, 40000),
                  RoundHalfEven((rgb[3] + adjustment_factor) * 17, 40000)>>)

(***************************************************************************)
(* Channels of any Python type.  A value is a record with its type:        *)
(* an int or a bool with its val, a str, or a float given by the decimal   *)
(* literal num / den (negated when neg), which stands for the nearest      *)
(* binary64 float.                                                         *)
(***************************************************************************)
IntVal(n) == [type |-> "int", val |-> n]
BoolVal(b) == [type |-> "bool", val |-> b]
StrVal(s) == [type |-> "str", val |-> s]
FloatVal(neg, num, den) == [type |-> "float", neg |-> neg, num |-> num, den |-> den]

\* int(v * 255) for a float v: the float product, truncated towards zero.
IntOfTimes255(v) ==
    LET magnitude == FMulInt(FDiv(v.num, FxInt(v.den)), 255)[1]
    IN  IF v.neg THEN 0 - magnitude ELSE magnitude

\* colorize/convert/__helpers.py : normalize_value (inside normalize_rgb)
normalize_value(v) ==
    IF v.type = "float" THEN IntVal(IntOfTimes255(v)) ELSE v

\* colorize/convert/__helpers.py : normalize_rgb on channels of any type
\* (a bool is an instance of int).
NormalizeRgbOfAny(rgb) ==
    IF \E k \in 1..Len(rgb) : rgb[k].type \notin {"int", "float", "bool"}
    THEN Raise("TypeError")
    ELSE Ok([k \in 1..Len(rgb) |-> normalize_value(rgb[k])])

\* The verification with one kind of error for every failure.
VerifyRgbOneErrorKind(value) ==
    IF value.type = "int"
    THEN IF 0 <= value.val /\ value.val <= 255 THEN "ok" ELSE "TypeError"
    ELSE IF value.type = "float"
    THEN IF (~value.neg /\ value.num <= value.den) \/ value.num = 0
         THEN "ok" ELSE "TypeError"
    ELSE "TypeError"

\* colorize/__utils.py : verify_rgb_number_value on a value of any type.
VerifyRgbOfAny(value) ==
    IF value.type = "int"
    THEN IF 0 <= value.val /\ value.val <= 255 THEN "ok" ELSE "ValueError"
    ELSE IF value.type = "float"
    THEN IF (~value.neg /\ value.num <= value.den) \/ value.num = 0
         THEN "ok" ELSE "ValueError"
    ELSE "TypeError"

\* The first failure of "for color in (r, g, b): _verify_rgb(color)".
VerifyAllOfAny(rgb) ==
    IF VerifyRgbOfAny(rgb[1]) # "ok" THEN VerifyRgbOfAny(rgb[1])
    ELSE IF VerifyRgbOfAny(rgb[2]) # "ok" THEN VerifyRgbOfAny(rgb[2])
    ELSE VerifyRgbOfAny(rgb[3])

\* The opening of rgb_to_hex, rgb_to_hsl, rgb_to_hsv and rgb_to_cmyk: the
\* length test, normalize_rgb and the verification loop.  The int channels
\* the conversion goes on with, or the exception.
IntChannels(rgb) ==
    IF Len(rgb) # 3 THEN Raise("TypeError")
    ELSE LET normal == NormalizeRgbOfAny(rgb)
         IN  IF normal.status # "ok" THEN normal
             ELSE IF VerifyAllOfAny(normal.value) # "ok"
                  THEN Raise(VerifyAllOfAny(normal.value))
             ELSE Ok([k \in 1..3 |-> normal.value[k].val])

\* rgb_to_hex, rgb_to_hsl, rgb_to_hsv or rgb_to_cmyk (by name) on channels
\* of any type.
ConvertRgbOfAny(name, rgb) ==
    LET channels == IntChannels(rgb)
    IN  IF channels.status # "ok" THEN channels
        ELSE IF name = "rgb_to_hex" THEN rgb_to_hex(channels.value, FALSE)
        ELSE IF name = "rgb_to_hsl" THEN rgb_to_hsl(channels.value)
        ELSE IF name = "rgb_to_hsv" THEN rgb_to_hsv(channels.value)
        ELSE rgb_to_cmyk(channels.value)

\* Channels of any type handed to the conversions.
AnyChannels ==
    <<IntVal(0), IntVal(255), IntVal(256), IntVal(0 - 1),
      FloatVal(FALSE, 0, 1), FloatVal(FALSE, 1, 10), FloatVal(FALSE, 1, 2),
      FloatVal(FALSE, 1, 1), FloatVal(FALSE, 3, 2), FloatVal(TRUE, 1, 2),
      BoolVal(TRUE), StrVal(<<"a">>)>>

\* One of the four conversions on a list of two or three channels.
CallConvertRgbOfAny ==
    /\ op = "idle"
    /\ \E name \in {"rgb_to_hex", "rgb_to_hsl", "rgb_to_hsv", "rgb_to_cmyk"},
          i \in 1..Len(AnyChannels), j \in 1..Len(AnyChannels),
          k \in 0..Len(AnyChannels) :
        LET rgb == IF k = 0 THEN <<AnyChannels[i], AnyChannels[j]>>
                   ELSE <<AnyChannels[i], AnyChannels[j], AnyChannels[k]>>
        IN  /\ op' = "convert_rgb_of_any"
            /\ arg' = <<name, rgb>>
            /\ prev' = prev
            /\ ret' = ConvertRgbOfAny(name, rgb)
    /\ UNCHANGED object

(***************************************************************************)
(* Inputs of the conversion actions.                                       *)
(***************************************************************************)
\* Characters of the strings handed to hex_to_rgb: hex digits in both
\* cases, the prefix characters and a sign.
HexAlphabet == {"#", "0", "f", "x", "+"}

RECURSIVE SeqsUpTo(_, _)
\* Every sequence over S of length 0..n.
SeqsUpTo(S, n) ==
    IF n = 0 THEN {<<>>}
    ELSE LET shorter == SeqsUpTo(S, n - 1)
         IN  shorter \cup {Append(s, c) : s \in {t \in shorter : Len(t) = n - 1},
                                          c \in S}

\* The strings of up to n characters handed to hex_to_rgb.
HexStrings(n) == SeqsUpTo(HexAlphabet, n)

\* Hues (degrees) and percentages handed to hsl_to_rgb / hsv_to_rgb: values
\* inside the documented domain, on its edges and beyond them.
Hues == {0 - 1, 0, 45, 90, 200, 300, 360, 361, 720, 21600, 21601}
Percents == {0 - 1, 0, 25, 50, 100, 101, 150}
HSXs == {<<h, s, x>> : h \in Hues, s \in Percents, x \in Percents}

(***************************************************************************)
(* Actions of the conversion specification.  A behaviour is one call, or   *)
(* one call followed by calls on its result.                               *)
(***************************************************************************)
InitMath ==
    /\ op = "idle"
    /\ arg = NoValue
    /\ prev = Idle
    /\ ret = Idle
    /\ obj = NoneValue
    /\ constructed = NoValue
    /\ calls = 0
    /\ before = NoneValue
    /\ peer = NoneValue

CallRgbToHsl ==
    /\ op = "idle"
    /\ \E rgb \in RGBs :
        /\ op' = "rgb_to_hsl"
        /\ arg' = rgb
        /\ ret' = rgb_to_hsl(rgb)
        /\ prev' = prev
    /\ UNCHANGED object

CallRgbToHsv ==
    /\ op = "idle"
    /\ \E rgb \in RGBs :
        /\ op' = "rgb_to_hsv"
        /\ arg' = rgb
        /\ ret' = rgb_to_hsv(rgb)
        /\ prev' = prev
    /\ UNCHANGED object

CallRgbToCmyk ==
    /\ op = "idle"
    /\ \E rgb \in RGBs :
        /\ op' = "rgb_to_cmyk"
        /\ arg' = rgb
        /\ ret' = rgb_to_cmyk(rgb)
        /\ prev' = prev
    /\ UNCHANGED object

CallRgbToHex ==
    /\ op = "idle"
    /\ \E rgb \in RGBs, include_hashtag \in BOOLEAN :
        /\ op' = "rgb_to_hex"
        /\ arg' = <<rgb, include_hashtag>>
        /\ ret' = rgb_to_hex(rgb, include_hashtag)
        /\ prev' = prev
    /\ UNCHANGED object

CallHexToRgb ==
    /\ op = "idle"
    /\ \E hex_ \in HexStrings(MaxHexLen) :
        /\ op' = "hex_to_rgb"
        /\ arg' = hex_
        /\ ret' = hex_to_rgb(hex_)
        /\ prev' = prev
    /\ UNCHANGED object

CallHslToRgb ==
    /\ op = "idle"
    /\ \E hsl \in HSXs :
        /\ op' = "hsl_to_rgb"
        /\ arg' = hsl
        /\ ret' = hsl_to_rgb(hsl)
        /\ prev' = prev
    /\ UNCHANGED object

CallHsvToRgb ==
    /\ op = "idle"
    /\ \E hsv \in HSXs :
        /\ op' = "hsv_to_rgb"
        /\ arg' = hsv
        /\ ret' = hsv_to_rgb(hsv)
        /\ prev' = prev
    /\ UNCHANGED object

\* hex_to_rgb applied to the string rgb_to_hex has just returned.
CallHexToRgbOnResult ==
    /\ op = "rgb_to_hex"
    /\ ret.status = "ok"
    /\ op' = "hex_to_rgb(rgb_to_hex)"
    /\ arg' = arg
    /\ prev' = ret
    /\ ret' = hex_to_rgb(ret.value)
    /\ UNCHANGED object

(***************************************************************************)
(* __src/colorize/convert/__convert_to_rgb.py : hsl_to_rgb, hsv_to_rgb and *)
(* cmyk_to_rgb on the floats that rgb_to_hsl, rgb_to_hsv and rgb_to_cmyk   *)
(* return: degrees and percents with two decimals, held in hundredths and  *)
(* inside the ranges those functions produce (0..36000 and 0..10000).      *)
(* The products are exact; they are kept as hi * 10^4 + lo.                *)
(***************************************************************************)
\* round((hi * 10^4 + lo) / (d * 10^4)) for an even d > 0, ties to even.
RoundHalfEvenLimbs(hi, lo, d) ==
    LET h == hi + (lo \div 10000)
        l == lo % 10000
        q == h \div d
        r == h % d
    IN  IF r < d \div 2 THEN q
        ELSE IF r > d \div 2 \/ l > 0 THEN q + 1
        ELSE IF q % 2 = 0 THEN q ELSE q + 1

\* round((x + adjustment_factor) * 255), the product p = s * (1 - |2l - 1|)
\* (or v * s) in units of 10^-8, the third component m in hundredths of a
\* percent, and x + adjustment_factor = (p * k + 60000000 * m) / (6 * 10^11).
ChannelOf(p, k, m) ==
    RoundHalfEvenLimbs(17 * (p \div 10000) * k + 102000 * m,
                       17 * (p % 10000) * k, 4000000)

\* hue_to_rgb arranges chroma (1), the middle component (2) and 0 by the
\* sextant of the hue; Arrange gives the arrangement of the three values.
Arrange(hue, c, x, zero) ==
    LET slot == hue_to_rgb(hue \div 100, 1, 2)
    IN  [k \in 1..3 |-> IF slot[k] = 1 THEN c
                        ELSE IF slot[k] = 2 THEN x ELSE zero]

hsl_to_rgb_floats(hsl) ==
    LET hue == hsl[1]
        s == hsl[2]
        l == hsl[3]
        check == verify_hsl_value(Frac(hue, 6000), Frac(s, 10000),
                                  Frac(l, 10000))
        t == 10000 - Abs(2 * l - 10000)        \* 10^4 * (1 - |2l - 1|)
        f == 6000 - Abs((hue % 12000) - 6000)  \* 6000 * (1 - |h % 2 - 1|)
        \* over 6 * 10^11 and with p = s t: chroma is 6000 p, the middle
        \* component p f, the adjustment factor 60000000 l - 3000 p
        k == Arrange(hue, 3000, f - 3000, 0 - 3000)
    IN  IF check # "ok" THEN Raise(check)
        ELSE Ok(<<ChannelOf(s * t, k[1], l),
                  ChannelOf(s * t, k[2], l),
                  ChannelOf(s * t, k[3], l)>>)

hsv_to_rgb_floats(hsv) ==
    LET hue == hsv[1]
        s == hsv[2]
        v == hsv[3]
        check == verify_hsv_value(Frac(hue, 6000), Frac(s, 10000),
                                  Frac(v, 10000))
        f == 6000 - Abs((hue % 12000) - 6000)
        \* over 6 * 10^11 and with p = v s: chroma is 6000 p, the middle
        \* component p f, the adjustment factor 60000000 v - 6000 p
        k == Arrange(hue, 0, f - 6000, 0 - 6000)
    IN  IF check # "ok" THEN Raise(check)
        ELSE Ok(<<ChannelOf(v * s, k[1], v),
                  ChannelOf(v * s, k[2], v),
                  ChannelOf(v * s, k[3], v)>>)

(***************************************************************************)
(* colorize/__utils.py : verify_cmyk_value (on floats, in hundredths)      *)
(***************************************************************************)
verify_cmyk_value(cyan, magenta, yellow, black) ==
    IF cyan < 0 \/ cyan > 10000 THEN "ValueError"
    ELSE IF magenta < 0 \/ magenta > 10000 THEN "ValueError"
    ELSE IF yellow < 0 \/ yellow > 10000 THEN "ValueError"
    ELSE IF black < 0 \/ black > 10000 THEN "ValueError"
    ELSE "ok"

\* round(255 * (1 - x / 100) * (1 - k / 100))
CmykChannel(x, k) ==
    LET p == (10000 - x) * (10000 - k)
    IN  RoundHalfEvenLimbs(255 * (p \div 10000), 255 * (p % 10000), 10000)

cmyk_to_rgb(cmyk) ==
    LET c == cmyk[1]
        m == cmyk[2]
        y == cmyk[3]
        k == cmyk[4]
        check == verify_cmyk_value(c, m, y, k)
    IN  IF check # "ok" THEN Raise(check)
        ELSE Ok(<<CmykChannel(c, k), CmykChannel(m, k), CmykChannel(y, k)>>)

\* The inverse conversion applied to what the last conversion returned.
CallBackToRgbOnResult ==
    /\ op \in {"rgb_to_hsl", "rgb_to_hsv", "rgb_to_cmyk"}
    /\ ret.status = "ok"
    /\ op' = IF op = "rgb_to_hsl" THEN "hsl_to_rgb(rgb_to_hsl)"
             ELSE IF op = "rgb_to_hsv" THEN "hsv_to_rgb(rgb_to_hsv)"
             ELSE "cmyk_to_rgb(rgb_to_cmyk)"
    /\ arg' = arg
    /\ prev' = ret
    /\ ret' = IF op = "rgb_to_hsl" THEN hsl_to_rgb_floats(ret.value)
              ELSE IF op = "rgb_to_hsv" THEN hsv_to_rgb_floats(ret.value)
              ELSE cmyk_to_rgb(ret.value)
    /\ UNCHANGED object

NextMath ==
    \/ CallRgbToHsl
    \/ CallRgbToHsv
    \/ CallRgbToCmyk
    \/ CallRgbToHex
    \/ CallHexToRgb
    \/ CallHslToRgb
    \/ CallHsvToRgb
    \/ CallHexToRgbOnResult
    \/ CallBackToRgbOnResult
    \/ CallConvertRgbOfAny

SpecMath == InitMath /\ [][NextMath]_vars

(***************************************************************************)
(* colorize/__colors.py : END_FORMAT, PredefinedColor, Styles              *)
(***************************************************************************)
ESC == "ESC"

END_FORMAT == <<ESC, "[", "0", "m">>

\* PredefinedColor.__init__: the three private fields start equal.
PredefinedColor(value) ==
    [type |-> "PredefinedColor",
     value |-> value, prev_value |-> value, original_value |-> value]

\* A str object (also where a PredefinedColor is expected).
PlainStr(value) == [type |-> "str", value |-> value]

\* A list object.
RgbList(value) == [type |-> "list", value |-> value]

\* Styles.BOLD
BOLD == PredefinedColor(<<ESC, "[", "1", "m">>)

\* str(n) for an int n.
Dec(n) == IF n < 0 THEN <<"-">> \o ToDigits(0 - n, 10) ELSE ToDigits(n, 10)

\* The code with the channels written in the order b, g, r.
AnsiColorCodeReversed(layer, r, g, b) ==
    <<ESC, "[">> \o layer \o <<";", "2", ";">>
        \o Dec(b) \o <<";">> \o Dec(g) \o <<";">> \o Dec(r) \o <<"m">>

\* The f-string '\x1b[{layer};2;{r};{g};{b}m' (layer is "38" or "48").
AnsiColorCode(layer, r, g, b) ==
    <<ESC, "[">> \o layer \o <<";", "2", ";">>
        \o Dec(r) \o <<";">> \o Dec(g) \o <<";">> \o Dec(b) \o <<"m">>

FG == <<"3", "8">>
BG == <<"4", "8">>

(***************************************************************************)
(* colorize/__funcs.py : format_text                                       *)
(* formats is the tuple of positional arguments after txt.                 *)
(***************************************************************************)
RECURSIVE ConcatValuesReversed(_)
\* The values concatenated from the last format to the first.
ConcatValuesReversed(formats) ==
    IF formats = <<>> THEN <<>>
    ELSE ConcatValuesReversed(Tail(formats)) \o Head(formats).value

RECURSIVE ConcatValues(_)
\* formatting += format_ for each format_ (PredefinedColor.__radd__).
ConcatValues(formats) ==
    IF formats = <<>> THEN <<>>
    ELSE Head(formats).value \o ConcatValues(Tail(formats))

\* txt is an object: a str or a value of another type.
format_text(txt, formats) ==
    IF txt.type # "str" THEN Raise("TypeError")
    ELSE IF \E i \in 1..Len(formats) : formats[i].type # "PredefinedColor"
    THEN Raise("TypeError")
    ELSE Ok(ConcatValues(formats) \o txt.value \o END_FORMAT)

(***************************************************************************)
(* colorize/__funcs.py : colorize_by_rgb                                   *)
(* fg and bg are objects: a list of three channels of any type, None or a  *)
(* value of another type.  txt is an object as well.                      *)
(***************************************************************************)
\* The body of "for color in fg, bg" for one colour: the exception it
\* raises, or "ok".
VerifyColorArg(color) ==
    IF color.type \notin {"list", "tuple", "NoneType"} THEN "TypeError"
    ELSE IF color.type # "NoneType" /\ Len(color.value) # 3 THEN "ValueError"
    ELSE "ok"

\* int(x * 255) for a float channel, the channel itself otherwise.
ChannelInt(v) == IF v.type = "float" THEN IntOfTimes255(v) ELSE v.val

\* The block "if fg:" (layer 38) or "if bg:" (layer 48): the formatting
\* string, '' for None, or the exception of the first failing _verify_rgb.
ColorFormatting(layer, color) ==
    IF color.type = "NoneType" THEN Ok(<<>>)
    ELSE IF VerifyAllOfAny(color.value) # "ok"
    THEN Raise(VerifyAllOfAny(color.value))
    ELSE Ok(AnsiColorCode(layer, ChannelInt(color.value[1]),
                          ChannelInt(color.value[2]),
                          ChannelInt(color.value[3])))

\* colorize_by_rgb with the background code written before the foreground
\* code.
ColorizeBackgroundFirst(txt, fg, bg) ==
    IF txt.type # "str" THEN Raise("TypeError")
    ELSE IF VerifyColorArg(fg) # "ok" THEN Raise(VerifyColorArg(fg))
    ELSE IF VerifyColorArg(bg) # "ok" THEN Raise(VerifyColorArg(bg))
    ELSE LET fg_formatting == ColorFormatting(FG, fg)
             bg_formatting == ColorFormatting(BG, bg)
         IN  IF fg_formatting.status # "ok" THEN fg_formatting
             ELSE IF bg_formatting.status # "ok" THEN bg_formatting
             ELSE Ok(bg_formatting.value \o fg_formatting.value
                         \o txt.value \o END_FORMAT)

colorize_by_rgb(txt, fg, bg) ==
    IF txt.type # "str" THEN Raise("TypeError")
    ELSE IF VerifyColorArg(fg) # "ok" THEN Raise(VerifyColorArg(fg))
    ELSE IF VerifyColorArg(bg) # "ok" THEN Raise(VerifyColorArg(bg))
    ELSE LET fg_formatting == ColorFormatting(FG, fg)
             bg_formatting == ColorFormatting(BG, bg)
         IN  IF fg_formatting.status # "ok" THEN fg_formatting
             ELSE IF bg_formatting.status # "ok" THEN bg_formatting
             ELSE Ok(fg_formatting.value \o bg_formatting.value
                         \o txt.value \o END_FORMAT)

(***************************************************************************)
(* __src/ansi/__text_colors.py : rgb_text, __src/ansi/__bg_colors.py :     *)
(* rgb_bg.  args is the tuple of positional arguments, each an object: a   *)
(* channel of any type or a list of channels.                              *)
(***************************************************************************)
\* __src/ansi/__utils.py : verify_rgb_number_value on a value of any type
\* (only an int that is not a bool is accepted).
VerifyRgbInt(value) ==
    IF value.type # "int" THEN "TypeError"
    ELSE IF 0 <= value.val /\ value.val <= 255 THEN "ok"
    ELSE "ValueError"

\* isinstance(v, int) for every v (a bool is an instance of int).
AllInstancesOfInt(values) ==
    \A k \in 1..Len(values) : values[k].type \in {"int", "bool"}

\* The if / elif / else that unpacks r, g, b: a single list or tuple of
\* three ints, or three ints.
UnpackRgbArgs(args) ==
    IF /\ Len(args) = 1
       /\ args[1].type \in {"list", "tuple"}
       /\ Len(args[1].value) = 3
       /\ AllInstancesOfInt(args[1].value)
    THEN Ok(args[1].value)
    ELSE IF Len(args) = 3 /\ AllInstancesOfInt(args) THEN Ok(args)
    ELSE Raise("TypeError")

\* The verification loop and the f-string of the layer.
LayerCode(layer, args) ==
    LET rgb == UnpackRgbArgs(args)
    IN  IF rgb.status # "ok" THEN rgb
        ELSE IF \E k \in 1..3 : VerifyRgbInt(rgb.value[k]) # "ok"
        THEN LET k == CHOOSE i \in 1..3 :
                        /\ VerifyRgbInt(rgb.value[i]) # "ok"
                        /\ \A j \in 1..(i - 1) : VerifyRgbInt(rgb.value[j]) = "ok"
             IN  Raise(VerifyRgbInt(rgb.value[k]))
        ELSE Ok(AnsiColorCode(layer, rgb.value[1].val, rgb.value[2].val,
                              rgb.value[3].val))

rgb_text(args) == LayerCode(FG, args)

rgb_bg(rgb_value) == LayerCode(BG, rgb_value)

(***************************************************************************)
(* colorize/__funcs.py : remove_formatting                                 *)
(* re.sub of \x1b\[([0-9A-Za-z;]*m) by '': scanning left to right, at an   *)
(* ESC followed by '[' the greedy class run is taken and the match ends at *)
(* the LAST 'm' of that run ('m' is itself in the class); if the run holds *)
(* no 'm' there is no match at that ESC.                                   *)
(***************************************************************************)
DecDigits == {"0", "1", "2", "3", "4", "5", "6", "7", "8", "9"}
Letters == {"a", "b", "c", "d", "e", "f", "g", "h", "i", "j", "k", "l", "m",
            "n", "o", "p", "q", "r", "s", "t", "u", "v", "w", "x", "y", "z",
            "A", "B", "C", "D", "E", "F", "G", "H", "I", "J", "K", "L", "M",
            "N", "O", "P", "Q", "R", "S", "T", "U", "V", "W", "X", "Y", "Z"}

\* The character class [0-9A-Za-z;].
SgrClass == DecDigits \cup Letters \cup {";"}

RECURSIVE RunEnd(_, _, _)
\* Index of the last character of the maximal run of class characters that
\* starts at index i (i - 1 when the run is empty).
RunEnd(s, i, class) ==
    IF i <= Len(s) /\ s[i] \in class THEN RunEnd(s, i + 1, class) ELSE i - 1

\* Index where the match that starts at index i ends, 0 when none starts there.
MatchEnd(s, i, class) ==
    IF ~(s[i] = ESC /\ i + 1 <= Len(s) /\ s[i + 1] = "[") THEN 0
    ELSE LET last == RunEnd(s, i + 2, class)
             ms == {j \in (i + 2)..last : s[j] = "m"}
         IN  IF ms = {} THEN 0
             ELSE CHOOSE j \in ms : \A k \in ms : k <= j

RECURSIVE SubFrom(_, _, _)
\* The string from index i on, with every non-overlapping match deleted.
SubFrom(s, i, class) ==
    IF i > Len(s) THEN <<>>
    ELSE LET e == MatchEnd(s, i, class)
         IN  IF e > 0 THEN SubFrom(s, e + 1, class)
             ELSE <<s[i]>> \o SubFrom(s, i + 1, class)

remove_formatting(txt) == Ok(SubFrom(txt, 1, SgrClass))

(***************************************************************************)
(* colorize/__funcs.py : get_colors                                        *)
(* re_split with the pattern (colour | end format) cuts txt at every       *)
(* leftmost non-overlapping match; of the parts it returns only the whole  *)
(* matches pass re_match in the loop (the captured groups and the text     *)
(* between the matches hold no ESC [ ... m of either shape at their        *)
(* start), so the loop sees the matches in order.                          *)
(***************************************************************************)
\* The character at index i, "" past the end.
At(s, i) == IF i >= 1 /\ i <= Len(s) THEN s[i] ELSE ""

\* \x1b\[((3[8]|4[8]);2);(\d+);(\d+);(\d+)m starting at index i: the index
\* of its last character (0 when it does not match) and the groups.
ColorMatch(s, i) ==
    LET r_end == RunEnd(s, i + 7, DecDigits)
        g_end == RunEnd(s, r_end + 2, DecDigits)
        b_end == RunEnd(s, g_end + 2, DecDigits)
        matched ==
            /\ At(s, i) = ESC /\ At(s, i + 1) = "["
            /\ At(s, i + 2) \in {"3", "4"} /\ At(s, i + 3) = "8"
            /\ At(s, i + 4) = ";" /\ At(s, i + 5) = "2" /\ At(s, i + 6) = ";"
            /\ r_end >= i + 7 /\ At(s, r_end + 1) = ";"
            /\ g_end >= r_end + 2 /\ At(s, g_end + 1) = ";"
            /\ b_end >= g_end + 2 /\ At(s, b_end + 1) = "m"
    IN  IF matched
        THEN [end |-> b_end + 1,
              color_type_code |-> SubSeq(s, i + 2, i + 5),
              r |-> SubSeq(s, i + 7, r_end),
              g |-> SubSeq(s, r_end + 2, g_end),
              b |-> SubSeq(s, g_end + 2, b_end)]
        ELSE [end |-> 0, color_type_code |-> <<>>,
              r |-> <<>>, g |-> <<>>, b |-> <<>>]

\* \x1b\[0m starting at index i.
EndFormatMatch(s, i) ==
    At(s, i) = ESC /\ At(s, i + 1) = "[" /\ At(s, i + 2) = "0"
        /\ At(s, i + 3) = "m"

RECURSIVE MatchedParts(_, _)
\* The parts of re_split, from index i on, that are whole matches: a colour
\* match as its groups, an end format match as the record with end = 0.
MatchedParts(s, i) ==
    IF i > Len(s) THEN <<>>
    ELSE IF ColorMatch(s, i).end > 0
         THEN <<ColorMatch(s, i)>> \o MatchedParts(s, ColorMatch(s, i).end + 1)
    ELSE IF EndFormatMatch(s, i)
         THEN <<[end |-> 0]>> \o MatchedParts(s, i + 4)
    ELSE MatchedParts(s, i + 1)

\* "8" in color_type_code: true of both layers.
ContainsAn8(code) == \E k \in 1..Len(code) : code[k] = "8"

\* "48" in color_type_code
Contains48(code) == \E k \in 1..(Len(code) - 1) : code[k] = "4"
        /\ code[k + 1] = "8"
\* "38" in color_type_code
Contains38(code) == \E k \in 1..(Len(code) - 1) : code[k] = "3"
        /\ code[k + 1] = "8"

\* return_as.lower().strip() for the values of return_as that are used.
LowerStrip(return_as) ==
    IF return_as = " HSL " THEN "hsl"
    ELSE IF return_as = "RGB" THEN "rgb"
    ELSE return_as

\* The match statement: the colour in the requested form, or the exception.
ColorAs(return_as, r, g, b) ==
    LET rgb == <<PyInt(r, 10).val, PyInt(g, 10).val, PyInt(b, 10).val>>
        form == LowerStrip(return_as)
    IN  IF form = "rgb" THEN Ok(rgb)
        ELSE IF form \in {"rgb float", "rgbf"}
             THEN Ok(<<Frac(rgb[1], 255), Frac(rgb[2], 255), Frac(rgb[3], 255)>>)
        ELSE IF form = "hex" THEN rgb_to_hex(rgb, FALSE)
        ELSE IF form = "hsl" THEN rgb_to_hsl(rgb)
        ELSE IF form = "hsv" THEN rgb_to_hsv(rgb)
        ELSE IF form = "cmyk" THEN rgb_to_cmyk(rgb)
        ELSE Raise("ValueError")

\* The str 'END_FORMAT' that stands for an end format match.
EndFormatName == <<"E", "N", "D", "_", "F", "O", "R", "M", "A", "T">>

RECURSIVE CollectColors(_, _, _, _, _)
\* for part in parts, from part k on: colors is the list built so far.  A
\* dictionary is a record with the field color and, when typed, type.
CollectColors(parts, k, colors, return_as, flags) ==
    IF k > Len(parts) THEN Ok(colors)
    ELSE IF parts[k].end > 0
    THEN LET color == ColorAs(return_as, parts[k].r, parts[k].g, parts[k].b)
             code == parts[k].color_type_code
             entry ==
                IF Contains38(code) /\ flags.include_color_type
                THEN [color |-> color.value, type |-> <<"F", "G">>]
                ELSE IF Contains48(code) /\ flags.include_color_type
                THEN [color |-> color.value, type |-> <<"B", "G">>]
                ELSE [color |-> color.value]
         IN  IF color.status # "ok" THEN color
             ELSE CollectColors(parts, k + 1, Append(colors, entry),
                                return_as, flags)
    ELSE IF flags.include_end_format
    THEN CollectColors(parts, k + 1,
                       Append(colors, [color |-> EndFormatName]),
                       return_as, flags)
    ELSE CollectColors(parts, k + 1, colors, return_as, flags)

get_colors(txt, return_as, include_end_format, include_color_type) ==
    CollectColors(MatchedParts(txt, 1), 1, <<>>, return_as,
                  [include_end_format |-> include_end_format,
                   include_color_type |-> include_color_type])

(***************************************************************************)
(* Inputs and actions of the codec specification.                          *)
(***************************************************************************)
\* Longest plain text handed to format_text.
MaxTextLen == 3
\* Largest number of formats handed to format_text.
MaxFormats == 2
\* Longest arbitrary string handed to remove_formatting.
MaxStrLen == 6

\* Plain text: letters, among them 'm', and a digit.
TextAlphabet == {"a", "m", "1"}
Texts == SeqsUpTo(TextAlphabet, MaxTextLen)

\* Arbitrary strings, escape bytes and fragments of codes included.
StrAlphabet == {ESC, "[", "0", "m", "a"}
Strings(n) == SeqsUpTo(StrAlphabet, n)

FormatItems ==
    {BOLD,
     PredefinedColor(AnsiColorCode(FG, 255, 0, 15)),
     PredefinedColor(AnsiColorCode(BG, 0, 128, 0)),
     PlainStr(<<ESC, "[", "1", "m">>)}
FormatLists == SeqsUpTo(FormatItems, MaxFormats)

\* Largest number of pieces a text handed to get_colors is made of.
MaxPieces == 3

RECURSIVE Flatten(_)
\* The concatenation of a sequence of strings.
Flatten(pieces) ==
    IF pieces = <<>> THEN <<>> ELSE Head(pieces) \o Flatten(Tail(pieces))

\* Pieces of the texts handed to get_colors: a letter, colour codes of both
\* layers (black and a channel above 255 among them), the end format, a
\* style, and the two halves of a colour code.
ScanPieces ==
    {<<"a">>,
     AnsiColorCode(FG, 255, 0, 15),
     AnsiColorCode(BG, 0, 128, 0),
     AnsiColorCode(FG, 0, 0, 0),
     AnsiColorCode(BG, 300, 0, 0),
     END_FORMAT,
     BOLD.value,
     <<ESC, "[", "3", "8", ";", "2", ";", "7">>,
     <<";", "8", ";", "9", "m">>}
\* The texts of up to n pieces.
ScanTexts(n) == {Flatten(pieces) : pieces \in SeqsUpTo(ScanPieces, n)}

ReturnAs == {"rgb", "rgb float", "rgbf", "hex", "hsl", "hsv", "cmyk",
             " HSL ", "bogus"}

\* Texts of format_text and colorize_by_rgb that are not a str.
NonStrTexts == <<NoneValue, RgbList(<<"a">>)>>

\* The fg and bg arguments of colorize_by_rgb.
ColorArgs ==
    <<NoneValue,
      RgbList(<<IntVal(255), IntVal(0), IntVal(15)>>),
      RgbList(<<IntVal(0), IntVal(128), IntVal(0)>>),
      RgbList(<<IntVal(0), IntVal(0), IntVal(0)>>),
      RgbList(<<FloatVal(FALSE, 1, 2), FloatVal(FALSE, 1, 10),
                FloatVal(FALSE, 1, 1)>>),
      RgbList(<<IntVal(7), FloatVal(FALSE, 0, 1), IntVal(200)>>),
      RgbList(<<IntVal(0), IntVal(256), IntVal(0)>>),
      RgbList(<<FloatVal(FALSE, 3, 2), IntVal(0), IntVal(0)>>),
      RgbList(<<IntVal(1), BoolVal(TRUE), IntVal(300)>>),
      RgbList(<<IntVal(1), IntVal(2)>>),
      PlainStr(<<"r", "e", "d">>)>>

\* Int channels handed to rgb_text and rgb_bg.
LayerChannels == <<0, 15, 128, 255, 256, 0 - 1>>

\* Other argument tuples of rgb_text and rgb_bg: a bool among the ints, a
\* float, two ints, a list of two, a list of floats, a str, a list after
\* two ints.
OtherRgbArgs ==
    << <<IntVal(1), BoolVal(TRUE), IntVal(2)>>,
       <<RgbList(<<IntVal(1), BoolVal(TRUE), IntVal(2)>>)>>,
       <<IntVal(1), FloatVal(FALSE, 1, 2), IntVal(2)>>,
       <<IntVal(1), IntVal(2)>>,
       <<RgbList(<<IntVal(1), IntVal(2)>>)>>,
       <<RgbList(<<FloatVal(FALSE, 1, 2), FloatVal(FALSE, 1, 2),
                   FloatVal(FALSE, 1, 2)>>)>>,
       <<PlainStr(<<"r", "e", "d">>)>>,
       <<IntVal(1), IntVal(2), RgbList(<<IntVal(1), IntVal(2), IntVal(3)>>)>>,
       <<>> >>

InitCodec ==
    /\ op = "idle"
    /\ arg = NoValue
    /\ prev = Idle
    /\ ret = Idle
    /\ obj = NoneValue
    /\ constructed = NoValue
    /\ calls = 0
    /\ before = NoneValue
    /\ peer = NoneValue

\* format_text on a str; arg keeps the characters of the text.
CallFormatText ==
    /\ op = "idle"
    /\ \E txt \in Texts, formats \in FormatLists :
        /\ op' = "format_text"
        /\ arg' = <<txt, formats>>
        /\ prev' = prev
        /\ ret' = format_text(PlainStr(txt), formats)
    /\ UNCHANGED object

\* format_text on a text that is not a str (None or a list).
CallFormatTextOfObject ==
    /\ op = "idle"
    /\ \E i \in 1..Len(NonStrTexts), formats \in FormatLists :
        /\ op' = "format_text(object)"
        /\ arg' = <<NonStrTexts[i], formats>>
        /\ prev' = prev
        /\ ret' = format_text(NonStrTexts[i], formats)
    /\ UNCHANGED object

\* colorize_by_rgb on a str; arg keeps the characters of the text.
CallColorizeByRgb ==
    /\ op = "idle"
    /\ \E txt \in Texts, i \in 1..Len(ColorArgs), j \in 1..Len(ColorArgs) :
        /\ op' = "colorize_by_rgb"
        /\ arg' = <<txt, ColorArgs[i], ColorArgs[j]>>
        /\ prev' = prev
        /\ ret' = colorize_by_rgb(PlainStr(txt), ColorArgs[i], ColorArgs[j])
    /\ UNCHANGED object

\* colorize_by_rgb on a text that is not a str.
CallColorizeByRgbOfObject ==
    /\ op = "idle"
    /\ \E n \in 1..Len(NonStrTexts), i \in 1..Len(ColorArgs),
          j \in 1..Len(ColorArgs) :
        /\ op' = "colorize_by_rgb(object)"
        /\ arg' = <<NonStrTexts[n], ColorArgs[i], ColorArgs[j]>>
        /\ prev' = prev
        /\ ret' = colorize_by_rgb(NonStrTexts[n], ColorArgs[i], ColorArgs[j])
    /\ UNCHANGED object

\* rgb_text or rgb_bg (by name) on three ints, given as three arguments or
\* as one list.
CallLayerCode ==
    /\ op = "idle"
    /\ \E name \in {"rgb_text", "rgb_bg"}, as_list \in BOOLEAN,
          i \in 1..Len(LayerChannels), j \in 1..Len(LayerChannels),
          k \in 1..Len(LayerChannels) :
        LET rgb == <<IntVal(LayerChannels[i]), IntVal(LayerChannels[j]),
                     IntVal(LayerChannels[k])>>
            args == IF as_list THEN <<RgbList(rgb)>> ELSE rgb
        IN  /\ op' = name
            /\ arg' = args
            /\ prev' = prev
            /\ ret' = IF name = "rgb_text" THEN rgb_text(args) ELSE rgb_bg(args)
    /\ UNCHANGED object

\* rgb_text or rgb_bg on arguments of other shapes and types.
CallLayerCodeOfOther ==
    /\ op = "idle"
    /\ \E name \in {"rgb_text", "rgb_bg"}, n \in 1..Len(OtherRgbArgs) :
        /\ op' = name
        /\ arg' = OtherRgbArgs[n]
        /\ prev' = prev
        /\ ret' = IF name = "rgb_text" THEN rgb_text(OtherRgbArgs[n])
                  ELSE rgb_bg(OtherRgbArgs[n])
    /\ UNCHANGED object

\* get_colors(s, 'rgb', include_end_format, True) on the string s that
\* colorize_by_rgb returned.
CallGetColorsOnResult ==
    /\ op = "colorize_by_rgb"
    /\ ret.status = "ok"
    /\ \E include_end_format \in BOOLEAN :
        /\ op' = "get_colors(colorize_by_rgb)"
        /\ arg' = arg \o <<include_end_format>>
        /\ prev' = ret
        /\ ret' = get_colors(ret.value, "rgb",
                             include_end_format, TRUE)
    /\ UNCHANGED object

CallRemoveFormatting ==
    /\ op = "idle"
    /\ \E txt \in Strings(MaxStrLen) :
        /\ op' = "remove_formatting"
        /\ arg' = txt
        /\ prev' = prev
        /\ ret' = remove_formatting(txt)
    /\ UNCHANGED object

\* remove_formatting applied to the string the last call returned.
CallRemoveFormattingOnResult ==
    /\ op \in {"format_text", "remove_formatting"}
    /\ ret.status = "ok"
    /\ op' = IF op = "format_text"
             THEN "remove_formatting(format_text)"
             ELSE "remove_formatting(remove_formatting)"
    /\ arg' = arg
    /\ prev' = ret
    /\ ret' = remove_formatting(ret.value)
    /\ UNCHANGED object

CallGetColors ==
    /\ op = "idle"
    /\ \E return_as \in ReturnAs, include_end_format \in BOOLEAN,
          include_color_type \in BOOLEAN :
        \E txt \in ScanTexts(IF return_as = "rgb" THEN MaxPieces
                             ELSE MaxPieces - 1) :
            /\ op' = "get_colors"
            /\ arg' = <<txt, return_as, include_end_format, include_color_type>>
            /\ prev' = prev
            /\ ret' = get_colors(txt, return_as, include_end_format,
                                 include_color_type)
    /\ UNCHANGED object

NextCodec ==
    \/ CallFormatText
    \/ CallRemoveFormatting
    \/ CallRemoveFormattingOnResult
    \/ CallGetColors
    \/ CallFormatTextOfObject
    \/ CallColorizeByRgb
    \/ CallColorizeByRgbOfObject
    \/ CallLayerCode
    \/ CallLayerCodeOfOther
    \/ CallGetColorsOnResult

SpecCodec == InitCodec /\ [][NextCodec]_vars

(***************************************************************************)
(* colorize/__colors.py : PredefinedColor.get_rgb                          *)
(***************************************************************************)
RECURSIVE SplitFrom(_, _, _)
\* str.split(sep) on the rest s of the string; cur is the part being read.
SplitFrom(s, sep, cur) ==
    IF s = <<>> THEN <<cur>>
    ELSE IF Head(s) = sep THEN <<cur>> \o SplitFrom(Tail(s), sep, <<>>)
    ELSE SplitFrom(Tail(s), sep, Append(cur, Head(s)))

Split(s, sep) == SplitFrom(s, sep, <<>>)

\* The value must split on ';' into five parts; the last three are read with
\* int(), the final character of the fifth (the 'm') dropped first.
get_rgb(color) ==
    LET parts == Split(color.value, ";")
    IN  IF Len(parts) # 5 THEN Raise("ValueError")
        ELSE LET r == PyInt(parts[3], 10)
                 g == PyInt(parts[4], 10)
                 b == PyInt(Slice(parts[5], 0, Len(parts[5]) - 1), 10)
             IN  IF r.ok /\ g.ok /\ b.ok
                 THEN Ok(<<r.val, g.val, b.val>>)
                 ELSE Raise("ValueError")

(***************************************************************************)
(* Arguments of the gradients.                                             *)
(* color_type is a str; an anchor of the two-anchor gradient is a list of  *)
(* ints, a PredefinedColor or an object of another type (hex str anchors   *)
(* are not among the inputs).                                              *)
(***************************************************************************)
\* color_type.lower().startswith('f') / ('b'): the layer of the template,
\* <<>> when neither.
LayerOf(color_type) ==
    IF color_type = <<>> THEN <<>>
    ELSE IF Head(color_type) \in {"f", "F"} THEN FG
    ELSE IF Head(color_type) \in {"b", "B"} THEN BG
    ELSE <<>>

\* The three floats (end - start) / span.
StepsOf(start_rgb, end_rgb, span) ==
    [c \in 1..3 |-> StepOf(start_rgb[c], end_rgb[c], span)]

\* template.format(r, g, b) for the colour of position j, counted from
\* start_rgb.
CodeAt(layer, start_rgb, steps, j) ==
    AnsiColorCode(layer,
                  ChannelAt(start_rgb[1], steps[1], j),
                  ChannelAt(start_rgb[2], steps[2], j),
                  ChannelAt(start_rgb[3], steps[3], j))

(***************************************************************************)
(* __src/ansi/__funcs.py and __src/colorize/__funcs.py :                   *)
(* gradient(txt, left_color, right_color, color_type)                      *)
(***************************************************************************)
\* The branch of the isinstance chain an anchor takes: the rgb list it
\* resolves to or the exception raised.
ResolveAnchor(color) ==
    IF color.type = "list"
    THEN IF \E k \in 1..Len(color.value) :
                verify_rgb_number_value(color.value[k]) # "ok"
         THEN Raise("ValueError")
         ELSE IF Len(color.value) # 3 THEN Raise("ValueError")
         ELSE Ok(color.value)
    ELSE IF color.type = "PredefinedColor" THEN get_rgb(color)
    ELSE Raise("TypeError")

RECURSIVE GradientLoop(_, _, _, _, _)
\* for i, char in enumerate(txt): the codes and characters from index i on.
GradientLoop(txt, layer, start_rgb, steps, i) ==
    IF i >= Len(txt) THEN <<>>
    ELSE CodeAt(layer, start_rgb, steps, i) \o <<txt[i + 1]>>
            \o GradientLoop(txt, layer, start_rgb, steps, i + 1)

\* The two-anchor gradient with the colours resolved before the length of
\* the text is looked at.
GradientColorsFirst(txt, left_color, right_color, color_type) ==
    LET left == ResolveAnchor(left_color)
        right == ResolveAnchor(right_color)
    IN  IF left.status # "ok" THEN left
        ELSE IF right.status # "ok" THEN right
        ELSE IF Len(txt) < 2 THEN Raise("ValueError")
        ELSE IF LayerOf(color_type) = <<>> THEN Raise("ValueError")
        ELSE Ok(GradientLoop(txt, LayerOf(color_type), left.value,
                             StepsOf(left.value, right.value,
                                     FxInt(Len(txt) - 1)), 0)
                    \o <<ESC, "[", "0", "m">>)

gradient_left_right(txt, left_color, right_color, color_type) ==
    IF Len(txt) < 2 THEN Raise("ValueError")
    ELSE IF LayerOf(color_type) = <<>> THEN Raise("ValueError")
    ELSE LET left == ResolveAnchor(left_color)
             right == ResolveAnchor(right_color)
         IN  IF left.status # "ok" THEN left
             ELSE IF right.status # "ok" THEN right
             ELSE LET steps == StepsOf(left.value, right.value,
                                       FxInt(Len(txt) - 1))
                  IN  Ok(GradientLoop(txt, LayerOf(color_type),
                                      left.value, steps, 0)
                            \o <<ESC, "[", "0", "m">>)

(***************************************************************************)
(* colorize/__funcs.py : gradient(txt, *colors, color_type)                *)
(***************************************************************************)
RECURSIVE SpanLoop(_, _, _, _, _, _, _)
\* for j in range(int(span)), from j on: the loop stops at the first index
\* i * int(span) + j that is past the text.  width is int(span).
SpanLoop(txt, layer, start_rgb, steps, i, width, j) ==
    IF j >= width \/ i * width + j >= Len(txt) THEN <<>>
    ELSE CodeAt(layer, start_rgb, steps, j) \o <<txt[i * width + j + 1]>>
            \o SpanLoop(txt, layer, start_rgb, steps, i, width, j + 1)

RECURSIVE ColorLoop(_, _, _, _, _)
\* for i, color in enumerate(colors), from i on: rgbs holds get_rgb() of
\* every colour; the end colour of the last one is colors[-1].
ColorLoop(txt, layer, rgbs, span, i) ==
    IF i >= Len(rgbs) THEN <<>>
    ELSE LET start_rgb == rgbs[i + 1]
             end_rgb == IF i + 2 <= Len(rgbs) THEN rgbs[i + 2]
                        ELSE rgbs[Len(rgbs)]
             steps == StepsOf(start_rgb, end_rgb, span)
         IN  SpanLoop(txt, layer, start_rgb, steps, i, span[1], 0)
                \o ColorLoop(txt, layer, rgbs, span, i + 1)

\* The first pass of the loop reads colors[0] and colors[1] and then divides
\* by span, which is 0.0 for the empty text; the later passes read the
\* other colours.  The leftover is txt[len(gradient_text):], gradient_text
\* being the string built so far, codes included.
gradient(txt, colors, color_type) ==
    IF LayerOf(color_type) = <<>> THEN Raise("ValueError")
    ELSE IF Len(colors) < 2 THEN Raise("ValueError")
    ELSE IF \E k \in 1..Len(colors) : colors[k].type # "PredefinedColor"
    THEN Raise("TypeError")
    ELSE LET span == FDiv(Len(txt), FxInt(Len(colors) - 1))
             rgbs == [k \in 1..Len(colors) |-> get_rgb(colors[k])]
         IN  IF rgbs[1].status # "ok" THEN rgbs[1]
             ELSE IF rgbs[2].status # "ok" THEN rgbs[2]
             ELSE IF span = FxZero THEN Raise("ZeroDivisionError")
             ELSE IF \E k \in 1..Len(colors) : rgbs[k].status # "ok"
             THEN Raise("ValueError")
             ELSE LET gradient_text ==
                        ColorLoop(txt, LayerOf(color_type),
                                  [k \in 1..Len(colors) |-> rgbs[k].value],
                                  span, 0)
                  IN  Ok(gradient_text
                            \o Slice(txt, Len(gradient_text), Len(txt))
                            \o <<ESC, "[", "0", "m">>)

(***************************************************************************)
(* Inputs and actions of the gradient specification.                       *)
(***************************************************************************)
\* Longest text handed to a gradient.
MaxGradLen == 8
\* Largest number of colours handed to the multi-anchor gradient.
MaxAnchors == 4

Lowercase == <<"a", "b", "c", "d", "e", "f", "g", "h", "i", "j", "k", "l",
               "m", "n", "o", "p", "q", "r", "s", "t", "u", "v", "w", "x",
               "y", "z">>
\* The plain text of length n: the alphabet, repeated.
SampleText(n) == [i \in 1..n |-> Lowercase[((i - 1) % 26) + 1]]
GradTexts == {SampleText(n) : n \in 0..MaxGradLen}

ColorTypes == {<<"F", "G">>, <<"b", "g">>, <<"x">>}

AnchorRgbs == {<<0, 0, 0>>, <<61, 115, 255>>, <<255, 122, 0>>}
\* Anchors of the two-anchor gradient: valid lists and colour objects, a
\* channel out of range, a list of two, a style and a None.
Anchors ==
    {RgbList(rgb) : rgb \in AnchorRgbs}
    \cup {PredefinedColor(AnsiColorCode(BG, rgb[1], rgb[2], rgb[3])) :
            rgb \in AnchorRgbs}
    \cup {RgbList(<<0, 0, 256>>), RgbList(<<0, 0>>), BOLD, NoneValue}

\* Colours of the multi-anchor gradient.
PaletteA == PredefinedColor(AnsiColorCode(FG, 0, 61, 255))
PaletteB == PredefinedColor(AnsiColorCode(FG, 255, 0, 115))
AnchorLists ==
    SeqsUpTo({PaletteA, PaletteB}, MaxAnchors)
    \cup {<<PaletteA, BOLD>>, <<BOLD, PaletteB>>,
          <<PaletteA, PaletteB, BOLD>>,
          <<PaletteA, PlainStr(PaletteB.value)>>}

InitGradient ==
    /\ op = "idle"
    /\ arg = NoValue
    /\ prev = Idle
    /\ ret = Idle
    /\ obj = NoneValue
    /\ constructed = NoValue
    /\ calls = 0
    /\ before = NoneValue
    /\ peer = NoneValue

CallGradientLeftRight ==
    /\ op = "idle"
    /\ \E txt \in GradTexts, left_color \in Anchors, right_color \in Anchors,
          color_type \in ColorTypes :
        /\ op' = "gradient_left_right"
        /\ arg' = <<txt, left_color, right_color, color_type>>
        /\ prev' = prev
        /\ ret' = gradient_left_right(txt, left_color, right_color, color_type)
    /\ UNCHANGED object

CallGradient ==
    /\ op = "idle"
    /\ \E txt \in GradTexts, colors \in AnchorLists, color_type \in ColorTypes :
        /\ op' = "gradient"
        /\ arg' = <<txt, colors, color_type>>
        /\ prev' = prev
        /\ ret' = gradient(txt, colors, color_type)
    /\ UNCHANGED object

NextGradient ==
    \/ CallGradientLeftRight
    \/ CallGradient

SpecGradient == InitGradient /\ [][NextGradient]_vars

(***************************************************************************)
(* colorize/__colors.py : PredefinedColor, the methods of one object.      *)
(* A method is an operator from the object (and the arguments) to the      *)
(* record [ret, self]: what the call returns or raises and the object      *)
(* after it.  Returned objects carry their type: a str, a list, a tuple, a *)
(* PredefinedColor or None.                                                *)
(***************************************************************************)
Returned(result, self) == [ret |-> result, self |-> self]

\* The properties value, previous_value and original_value.
ReadProperty(self, name) ==
    IF name = "value" THEN Returned(Ok(PlainStr(self.value)), self)
    ELSE IF name = "previous_value"
    THEN Returned(Ok(PlainStr(self.prev_value)), self)
    ELSE Returned(Ok(PlainStr(self.original_value)), self)

\* revert_change that goes back to the original value.
RevertChangeToOriginal(self) ==
    Returned(Ok(NoneValue),
             [self EXCEPT !.value = self.original_value,
                          !.prev_value = self.value])

\* revert_change that leaves previous_value as it is.
RevertChangeWithoutExchange(self) ==
    Returned(Ok(NoneValue), [self EXCEPT !.value = self.prev_value])

revert_change(self) ==
    Returned(Ok(NoneValue),
             [self EXCEPT !.value = self.prev_value,
                          !.prev_value = self.value])

\* revert_to_original that also makes the value it replaces the original.
RevertReplacingOriginal(self) ==
    Returned(Ok(NoneValue),
             [self EXCEPT !.prev_value = self.value,
                          !.value = self.original_value,
                          !.original_value = self.value])

\* revert_to_original that does not record the value it replaces.
RevertToOriginalWithoutHistory(self) ==
    Returned(Ok(NoneValue), [self EXCEPT !.value = self.original_value])

revert_to_original(self) ==
    Returned(Ok(NoneValue),
             [self EXCEPT !.prev_value = self.value,
                          !.value = self.original_value])

\* get_rgb(return_as_floats=..., return_as_tuple=...): with
\* return_as_floats each channel is int(float(r) / 255).
GetRgbAs(self, return_as_floats, return_as_tuple) ==
    LET rgb == get_rgb(self)
        channels == [k \in 1..3 |-> IF return_as_floats
                                    THEN rgb.value[k] \div 255
                                    ELSE rgb.value[k]]
    IN  IF rgb.status # "ok" THEN Returned(rgb, self)
        ELSE Returned(Ok([type |-> IF return_as_tuple THEN "tuple" ELSE "list",
                          value |-> channels]), self)

get_hex(self, include_hashtag) ==
    LET rgb == get_rgb(self)
        digits == Format02x(rgb.value[1]) \o Format02x(rgb.value[2])
                    \o Format02x(rgb.value[3])
    IN  IF rgb.status # "ok" THEN Returned(rgb, self)
        ELSE IF include_hashtag THEN Returned(Ok(PlainStr(<<"#">> \o digits)), self)
        ELSE Returned(Ok(PlainStr(digits)), self)

\* adjustment_factor = 1 + (percentage / 100.0) as [neg, mag], for a
\* percentage whose value is a whole number of magnitude percentage.num.
AdjustmentFactor(percentage) ==
    LET quotient == FDivInt(percentage.num, 100)
        one == FxInt(1)
    IN  IF ~percentage.neg
        THEN [neg |-> FALSE, mag |-> Round53(FxAdd(one, quotient), FALSE)]
        ELSE IF FxGeq(one, quotient)
        THEN [neg |-> FALSE, mag |-> Round53(FxSub(one, quotient), FALSE)]
        ELSE [neg |-> TRUE, mag |-> Round53(FxSub(quotient, one), FALSE)]

\* int(c * adjustment_factor) without the min and the max around it.
UnclampedChannel(c, adjustment_factor) ==
    LET magnitude == FMulInt(adjustment_factor.mag, c)[1]
    IN  IF adjustment_factor.neg THEN 0 - magnitude ELSE magnitude

\* min(max(int(c * adjustment_factor), 0), 255)
AdjustedChannel(c, adjustment_factor) ==
    LET magnitude == FMulInt(adjustment_factor.mag, c)[1]
        scaled == IF adjustment_factor.neg THEN 0 - magnitude ELSE magnitude
    IN  Min2(Max2(scaled, 0), 255)

\* color_type is bound only when the value holds "38" or "48"; the f-string
\* that reads it raises UnboundLocalError otherwise.  A percentage with
\* den = 0 is an infinity (num = 1) or a NaN (num = 0): the factor, and the
\* product with the red channel, is then infinite or (for NaN, and for a
\* red channel of 0) NaN, and int() of it raises.
change_brightness(self, percentage) ==
    IF percentage.type # "float" THEN Returned(Raise("TypeError"), self)
    ELSE LET rgb == get_rgb(self)
             color_type == IF Contains38(self.value) THEN FG ELSE BG
             adjustment_factor == AdjustmentFactor(percentage)
             new_ansi_code ==
                AnsiColorCode(color_type,
                              AdjustedChannel(rgb.value[1], adjustment_factor),
                              AdjustedChannel(rgb.value[2], adjustment_factor),
                              AdjustedChannel(rgb.value[3], adjustment_factor))
         IN  IF rgb.status # "ok" THEN Returned(rgb, self)
             ELSE IF percentage.den = 0
             THEN Returned(Raise(IF percentage.num = 0 \/ rgb.value[1] = 0
                                 THEN "ValueError" ELSE "OverflowError"), self)
             ELSE IF ~Contains38(self.value) /\ ~Contains48(self.value)
             THEN Returned(Raise("UnboundLocalError"), self)
             ELSE Returned(Ok(NoneValue),
                           [self EXCEPT !.prev_value = self.value,
                                        !.value = new_ansi_code])

\* PredefinedColor.__str__
str(self) == Returned(Ok(PlainStr(self.value)), self)

\* A concatenation that also stores the concatenated string in self.
AddInPlace(self, other) ==
    IF other.type = "str"
    THEN Returned(Ok(PlainStr(self.value \o other.value)),
                  [self EXCEPT !.value = self.value \o other.value])
    ELSE IF other.type = "PredefinedColor"
    THEN Returned(Ok(PredefinedColor(self.value \o other.value)),
                  [self EXCEPT !.value = self.value \o other.value])
    ELSE Returned(Raise("TypeError"), self)

\* PredefinedColor.__add__: self + other
add(self, other) ==
    IF other.type = "str"
    THEN Returned(Ok(PlainStr(self.value \o other.value)), self)
    ELSE IF other.type = "PredefinedColor"
    THEN Returned(Ok(PredefinedColor(self.value \o other.value)), self)
    ELSE Returned(Raise("TypeError"), self)

\* PredefinedColor.__radd__: other + self
radd(self, other) ==
    IF other.type = "str"
    THEN Returned(Ok(PlainStr(other.value \o self.value)), self)
    ELSE IF other.type = "PredefinedColor"
    THEN Returned(Ok(PredefinedColor(other.value \o self.value)), self)
    ELSE Returned(Raise("TypeError"), self)

\* Largest number of calls made on one object.
MaxCalls == 3

\* Strings a PredefinedColor is constructed from: a foreground and a
\* background colour, a background whose red channel holds "38", a style,
\* a colour code of another layer and two colour codes concatenated.
ConstructionStrings ==
    {AnsiColorCode(FG, 61, 115, 255),
     AnsiColorCode(FG, 61, 115, 255) \o AnsiColorCode(BG, 0, 128, 0),
     AnsiColorCode(BG, 0, 128, 0),
     AnsiColorCode(BG, 138, 0, 7),
     <<ESC, "[", "1", "m">>,
     AnsiColorCode(<<"5", "8">>, 1, 2, 3)}

\* Percentages handed to change_brightness: floats (among them one below
\* -100, a large one, an infinity and a NaN) and an int.
BrightnessPercents ==
    <<FloatVal(FALSE, 50, 1), FloatVal(TRUE, 50, 1), FloatVal(FALSE, 0, 1),
      FloatVal(TRUE, 150, 1), FloatVal(FALSE, 7, 1), IntVal(50),
      FloatVal(FALSE, 400, 1), FloatVal(FALSE, 1, 0), FloatVal(FALSE, 0, 0)>>

\* Percentages handed to change_brightness of the second instance.
PeerPercents == <<FloatVal(FALSE, 50, 1), IntVal(50)>>

\* The second instance as constructed: a style or a background colour.
PeerInstances == <<BOLD, PredefinedColor(AnsiColorCode(BG, 0, 128, 0))>>

\* The other operand of a concatenation: a str, the second instance, None.
Operands == <<PlainStr(<<"a">>), peer, NoneValue>>

\* The state after PredefinedColor(value).
InitColor ==
    /\ op = "idle"
    /\ arg = NoValue
    /\ prev = Idle
    /\ ret = Idle
    /\ calls = 0
    /\ before = NoneValue
    /\ \E n \in 1..Len(PeerInstances) : peer = PeerInstances[n]
    /\ \E value \in ConstructionStrings :
        /\ obj = PredefinedColor(value)
        /\ constructed = value

\* One call on the object: the call record, the object after the call.
\* A method assigns to the fields of self alone.
Called(name, args, outcome) ==
    /\ calls < MaxCalls
    /\ calls' = calls + 1
    /\ op' = name
    /\ arg' = args
    /\ prev' = ret
    /\ ret' = outcome.ret
    /\ before' = obj
    /\ obj' = outcome.self
    /\ peer' = peer
    /\ constructed' = constructed

\* One call whose self is the second instance.
PeerCalled(name, args, outcome) ==
    /\ calls < MaxCalls
    /\ calls' = calls + 1
    /\ op' = name
    /\ arg' = args
    /\ prev' = ret
    /\ ret' = outcome.ret
    /\ before' = obj
    /\ obj' = obj
    /\ peer' = outcome.self
    /\ constructed' = constructed

CallChangeBrightness ==
    \E n \in 1..Len(BrightnessPercents) :
        Called("change_brightness", <<BrightnessPercents[n]>>,
               change_brightness(obj, BrightnessPercents[n]))

CallRevertChange == Called("revert_change", <<>>, revert_change(obj))

CallRevertToOriginal ==
    Called("revert_to_original", <<>>, revert_to_original(obj))

CallAdd ==
    \E n \in 1..Len(Operands) :
        Called("add", <<Operands[n]>>, add(obj, Operands[n]))

CallRAdd ==
    \E n \in 1..Len(Operands) :
        Called("radd", <<Operands[n]>>, radd(obj, Operands[n]))

CallReadProperty ==
    \E name \in {"value", "previous_value", "original_value"} :
        Called(name, <<>>, ReadProperty(obj, name))

CallStr == Called("str", <<>>, str(obj))

CallGetRgb ==
    \E return_as_floats \in BOOLEAN, return_as_tuple \in BOOLEAN :
        Called("get_rgb", <<return_as_floats, return_as_tuple>>,
               GetRgbAs(obj, return_as_floats, return_as_tuple))

CallGetHex ==
    \E include_hashtag \in BOOLEAN :
        Called("get_hex", <<include_hashtag>>, get_hex(obj, include_hashtag))

\* The mutating methods, and a concatenation with the first instance as
\* the other operand, called on the second instance.
CallPeerChangeBrightness ==
    \E n \in 1..Len(PeerPercents) :
        PeerCalled("peer.change_brightness", <<PeerPercents[n]>>,
                   change_brightness(peer, PeerPercents[n]))

CallPeerRevertChange ==
    PeerCalled("peer.revert_change", <<>>, revert_change(peer))

CallPeerRevertToOriginal ==
    PeerCalled("peer.revert_to_original", <<>>, revert_to_original(peer))

CallPeerAdd == PeerCalled("peer.add", <<obj>>, add(peer, obj))

NextColor ==
    \/ CallPeerChangeBrightness
    \/ CallPeerRevertChange
    \/ CallPeerRevertToOriginal
    \/ CallPeerAdd
    \/ CallChangeBrightness
    \/ CallRevertChange
    \/ CallRevertToOriginal
    \/ CallAdd
    \/ CallRAdd
    \/ CallReadProperty
    \/ CallStr
    \/ CallGetRgb
    \/ CallGetHex

SpecColor == InitColor /\ [][NextColor]_vars

(***************************************************************************)
(* Properties of the conversions (SpecMath).                               *)
(***************************************************************************)
IsGrey(rgb) == rgb[1] = rgb[2] /\ rgb[2] = rgb[3]

\* C1: for every RGB triple with three equal channels, black and white
\* included, rgb_to_hsl returns hue 0 and saturation 0 without raising, and
\* rgb_to_hsv returns saturation 0 without raising when max = 0; black maps
\* to [0, 0, 0] and white to [0, 0, 100].
C1_GreyHasZeroSaturation ==
    /\ (op = "rgb_to_hsl" /\ IsGrey(arg)) =>
            /\ ret.status = "ok"
            /\ ret.value[1] = 0
            /\ ret.value[2] = 0
    /\ (op = "rgb_to_hsl" /\ arg = <<0, 0, 0>>) => ret = Ok(<<0, 0, 0>>)
    /\ (op = "rgb_to_hsl" /\ arg = <<255, 255, 255>>) => ret = Ok(<<0, 0, 10000>>)
    /\ (op = "rgb_to_hsv" /\ Max3(arg[1], arg[2], arg[3]) = 0) =>
            /\ ret.status = "ok"
            /\ ret.value[2] = 0

\* C2: rgb_to_cmyk is defined for pure black, where it returns
\* [0, 0, 0, 100] without raising; for every other valid triple each of
\* C, M, Y, K is in 0..100.
C2_CmykDefinedForBlack ==
    op = "rgb_to_cmyk" =>
        /\ ret.status = "ok"
        /\ arg = <<0, 0, 0>> => ret.value = <<0, 0, 0, 10000>>
        /\ \A i \in 1..4 : ret.value[i] \in 0..10000

\* C7: hsl_to_rgb and hsv_to_rgb raise a range error whenever the hue the
\* caller supplies is outside 0..360 or the saturation, lightness or value
\* is outside 0..100.
C7_HsxRangeChecked ==
    (/\ op \in {"hsl_to_rgb", "hsv_to_rgb"}
     /\ \/ arg[1] \notin 0..360
        \/ arg[2] \notin 0..100
        \/ arg[3] \notin 0..100)
    => ret.status = "ValueError"

\* The string is exactly six hexadecimal digits after one optional '#'.
IsSixHexDigits(s) ==
    LET body == IF s # <<>> /\ Head(s) = "#" THEN Tail(s) ELSE s
    IN  Len(body) = 6 /\ \A i \in 1..6 : IsDigit(body[i], 16)

\* C8: hex_to_rgb raises a range/format error for every string that is not
\* exactly six hexadecimal digits after one optional leading '#', and
\* returns a triple only for exactly six hex digits.
C8_HexShapeChecked ==
    op = "hex_to_rgb" =>
        IF IsSixHexDigits(arg) THEN ret.status = "ok"
        ELSE ret.status = "ValueError"

IsLowerHexDigit(c) == \E i \in 1..16 : HexDigits[i] = c

\* C9: rgb_to_hex on a valid triple returns six lowercase hex digits, two
\* zero-padded digits per channel in R, G, B order, preceded by '#' exactly
\* when include_hashtag is True.
C9_HexShapeAndPrefix ==
    op = "rgb_to_hex" =>
        /\ ret.status = "ok"
        /\ LET out == ret.value
               digits == IF arg[2] THEN Tail(out) ELSE out
           IN  /\ arg[2] => Head(out) = "#"
               /\ Len(digits) = 6
               /\ \A i \in 1..6 : IsLowerHexDigit(digits[i])
               /\ \A k \in 1..3 :
                    16 * DigitVal(digits[2 * k - 1]) + DigitVal(digits[2 * k])
                        = arg[1][k]

\* C10: for every RGB triple of integers in 0..255,
\* hex_to_rgb(rgb_to_hex(rgb)) equals rgb, whether or not the '#' prefix is
\* requested.
C10_HexRoundTrip ==
    op = "hex_to_rgb(rgb_to_hex)" => ret = Ok(arg[1])

\* A round trip of a triple with a channel below 16 (a zero-padded digit
\* pair), with the prefix requested.
C10_Witness ==
    /\ op = "hex_to_rgb(rgb_to_hex)"
    /\ arg[2] = TRUE
    /\ \E k \in 1..3 : arg[1][k] \in 1..15
    /\ ret.status = "ok"

\* C11: for every valid integer RGB triple (black, white and greys
\* included), converting to HSL, HSV or CMYK with the default 2 decimal
\* places and converting back returns a triple that differs from the
\* original by at most 1 in each channel.
C11_RoundTripWithinOne ==
    /\ op \in {"rgb_to_hsl", "rgb_to_hsv", "rgb_to_cmyk"} => ret.status = "ok"
    /\ op \in {"hsl_to_rgb(rgb_to_hsl)", "hsv_to_rgb(rgb_to_hsv)",
               "cmyk_to_rgb(rgb_to_cmyk)"} =>
            /\ ret.status = "ok"
            /\ \A k \in 1..3 : Abs(ret.value[k] - arg[k]) <= 1

(***************************************************************************)
(* Properties of format_text and remove_formatting (SpecCodec).            *)
(***************************************************************************)
\* C3: for every plain text t (no ESC inside) and every list of colour and
\* style codes, remove_formatting(format_text(t, codes)) = t: only the
\* escape sequences are deleted and every other character is kept, letters
\* that directly follow a code included.
C3_StripUndoesFormat ==
    op = "remove_formatting(format_text)" => ret = Ok(arg[1])

\* C4: remove_formatting is idempotent: for every string s,
\* remove_formatting(remove_formatting(s)) = remove_formatting(s).
C4_StripIdempotent ==
    op = "remove_formatting(remove_formatting)" => ret = prev

(***************************************************************************)
(* Properties of get_colors and colorize_by_rgb (SpecCodec).               *)
(***************************************************************************)
SupportedReturnAs == {"rgb", "rgb float", "rgbf", "hex", "hsl", "hsv", "cmyk"}

\* C12: for every string txt and every supported return_as value,
\* get_colors(txt) returns a list and never raises.
C12_GetColorsNeverRaises ==
    (op = "get_colors" /\ LowerStrip(arg[2]) \in SupportedReturnAs)
        => ret.status = "ok"

\* The index of the first 'm' at or after index i, 0 when there is none.
FirstM(s, i) ==
    IF \E k \in i..Len(s) : s[k] = "m"
    THEN CHOOSE k \in i..Len(s) : s[k] = "m" /\ \A j \in i..(k - 1) : s[j] # "m"
    ELSE 0

\* The three channel fields of the 24-bit colour escape that starts at
\* index i (ESC [ 38 or 48 ; 2 ; R ; G ; B m, each of R, G, B a non-empty
\* run of decimal digits), <<>> when none starts there.
ColourFields(s, i) ==
    IF /\ i + 7 <= Len(s)
       /\ SubSeq(s, i, i + 6) \in {<<ESC, "[", "3", "8", ";", "2", ";">>,
                                   <<ESC, "[", "4", "8", ";", "2", ";">>}
       /\ FirstM(s, i + 7) > 0
    THEN LET fields == Split(SubSeq(s, i + 7, FirstM(s, i + 7) - 1), ";")
         IN  IF /\ Len(fields) = 3
                /\ \A k \in 1..3 : fields[k] # <<>> /\ AllDigits(fields[k], 10)
             THEN fields ELSE <<>>
    ELSE <<>>

IsResetAt(s, i) == i + 3 <= Len(s) /\ SubSeq(s, i, i + 3) = <<ESC, "[", "0", "m">>

\* The entry the escape at index i is reported as.
EntryAt(s, i, include_color_type) ==
    IF IsResetAt(s, i) THEN [color |-> EndFormatName]
    ELSE LET fields == ColourFields(s, i)
             rgb == [k \in 1..3 |-> DigitsVal(fields[k], 10, 0)]
         IN  IF ~include_color_type THEN [color |-> rgb]
             ELSE IF s[i + 2] = "3" THEN [color |-> rgb, type |-> <<"F", "G">>]
             ELSE [color |-> rgb, type |-> <<"B", "G">>]

RECURSIVE EntriesOf(_, _, _)
\* The entries of the indices in the set, in increasing order.
EntriesOf(s, indices, include_color_type) ==
    IF indices = {} THEN <<>>
    ELSE LET i == CHOOSE m \in indices : \A k \in indices : m <= k
         IN  <<EntryAt(s, i, include_color_type)>>
                \o EntriesOf(s, indices \ {i}, include_color_type)

\* The indices get_colors is to report: every colour escape, and every
\* reset when end formats are asked for.
Reported(s, include_end_format) ==
    {i \in 1..Len(s) : \/ ColourFields(s, i) # <<>>
                       \/ include_end_format /\ IsResetAt(s, i)}

\* C13: get_colors reports exactly one entry per 24-bit colour escape found
\* in the text, in left-to-right order of appearance, carrying the decoded
\* R, G, B; plain-text segments produce no entry; a reset escape produces an
\* entry (the sentinel) only when include_end_format is True; with
\* include_color_type a 38 code is tagged 'FG' and a 48 code 'BG'.
C13_OneEntryPerEscape ==
    (op = "get_colors" /\ LowerStrip(arg[2]) = "rgb")
        => ret = Ok(EntriesOf(arg[1], Reported(arg[1], arg[3]), arg[4]))

\* A text with a foreground code, a background code, plain text and a
\* reset, scanned with both flags set.
C13_Witness ==
    /\ op = "get_colors"
    /\ LowerStrip(arg[2]) = "rgb"
    /\ arg[3] /\ arg[4]
    /\ ret.status = "ok"
    /\ Len(ret.value) = 3
    /\ \E i, j, k \in 1..3 :
        /\ ret.value[i] = [color |-> <<255, 0, 15>>, type |-> <<"F", "G">>]
        /\ ret.value[j] = [color |-> <<0, 128, 0>>, type |-> <<"B", "G">>]
        /\ ret.value[k] = [color |-> EndFormatName]

RECURSIVE ValuesUpTo(_, _)
\* c1.value + ... + ck.value
ValuesUpTo(formats, k) ==
    IF k = 0 THEN <<>> ELSE ValuesUpTo(formats, k - 1) \o formats[k].value

IsIntColor(color) ==
    /\ color.type = "list"
    /\ Len(color.value) = 3
    /\ \A k \in 1..3 : /\ color.value[k].type = "int"
                       /\ color.value[k].val \in 0..255

IntsOf(color) == [k \in 1..3 |-> color.value[k].val]

\* C14: for a valid int colour c on one layer, get_colors(s, 'rgb',
\* include_color_type=True) of the string s that colorize_by_rgb composes
\* (the code of c, a plain text, the reset) is a list of exactly one entry,
\* whose colour is c and whose type is 'FG' for fg and 'BG' for bg.
C14_ScanOfComposedString ==
    (op = "get_colors(colorize_by_rgb)" /\ ~arg[4]) =>
        /\ (IsIntColor(arg[2]) /\ arg[3].type = "NoneType") =>
                ret = Ok(<<[color |-> IntsOf(arg[2]), type |-> <<"F", "G">>]>>)
        /\ (arg[2].type = "NoneType" /\ IsIntColor(arg[3])) =>
                ret = Ok(<<[color |-> IntsOf(arg[3]), type |-> <<"B", "G">>]>>)

\* The background (0, 128, 0) on the text 'a1' scanned back as one entry.
C14_Witness ==
    /\ op = "get_colors(colorize_by_rgb)"
    /\ arg[1] = <<"a", "1">>
    /\ arg[2].type = "NoneType"
    /\ arg[3] = RgbList(<<IntVal(0), IntVal(128), IntVal(0)>>)
    /\ ~arg[4]
    /\ prev = Ok(AnsiColorCode(BG, 0, 128, 0) \o <<"a", "1">> \o END_FORMAT)
    /\ ret = Ok(<<[color |-> <<0, 128, 0>>, type |-> <<"B", "G">>]>>)

\* The decimal digits of n in 0..999, without leading zeros.
DecimalOf(n) ==
    LET digit(d) == <<"0", "1", "2", "3", "4", "5", "6", "7", "8", "9">>[d + 1]
    IN  IF n < 10 THEN <<digit(n)>>
        ELSE IF n < 100 THEN <<digit(n \div 10), digit(n % 10)>>
        ELSE <<digit(n \div 100), digit((n \div 10) % 10), digit(n % 10)>>

\* ESC[38;2;R;G;Bm or ESC[48;2;R;G;Bm for a triple of ints.
ExpectedCode(layer, rgb) ==
    <<ESC, "[">> \o layer \o <<";", "2", ";">> \o DecimalOf(rgb[1]) \o <<";">>
        \o DecimalOf(rgb[2]) \o <<";">> \o DecimalOf(rgb[3]) \o <<"m">>

\* The code of fg or bg, '' when the colour is None.
ExpectedCodeOf(layer, color) ==
    IF color.type = "NoneType" THEN <<>> ELSE ExpectedCode(layer, IntsOf(color))

\* Three ints in 0..255 as three arguments or as one list.
ValidLayerArgs(args) ==
    \/ Len(args) = 1 /\ IsIntColor(args[1])
    \/ /\ Len(args) = 3
       /\ \A k \in 1..3 : args[k].type = "int" /\ args[k].val \in 0..255

LayerArgInts(args) ==
    IF Len(args) = 1 THEN IntsOf(args[1]) ELSE [k \in 1..3 |-> args[k].val]

\* C19: with fg and bg each None or a valid int triple, colorize_by_rgb
\* returns the 38 code of fg (when given), the 48 code of bg (when given),
\* the text and ESC[0m, channels in decimal, nothing else; rgb_text and
\* rgb_bg on a valid int triple return the 38 code and the 48 code.
C19_ColorizeByRgbLayout ==
    /\ (/\ op = "colorize_by_rgb"
        /\ \A k \in 2..3 : arg[k].type = "NoneType" \/ IsIntColor(arg[k])) =>
            ret = Ok(ExpectedCodeOf(<<"3", "8">>, arg[2])
                        \o ExpectedCodeOf(<<"4", "8">>, arg[3])
                        \o arg[1] \o <<ESC, "[", "0", "m">>)
    /\ (op = "rgb_text" /\ ValidLayerArgs(arg)) =>
            ret = Ok(ExpectedCode(<<"3", "8">>, LayerArgInts(arg)))
    /\ (op = "rgb_bg" /\ ValidLayerArgs(arg)) =>
            ret = Ok(ExpectedCode(<<"4", "8">>, LayerArgInts(arg)))

\* colorize_by_rgb('am', [255, 0, 15], [0, 128, 0])
C19_Witness ==
    /\ op = "colorize_by_rgb"
    /\ arg[1] = <<"a", "m">>
    /\ IsIntColor(arg[2]) /\ IntsOf(arg[2]) = <<255, 0, 15>>
    /\ IsIntColor(arg[3]) /\ IntsOf(arg[3]) = <<0, 128, 0>>
    /\ ret = Ok(<<ESC, "[", "3", "8", ";", "2", ";", "2", "5", "5", ";", "0",
                  ";", "1", "5", "m",
                  ESC, "[", "4", "8", ";", "2", ";", "0", ";", "1", "2", "8",
                  ";", "0", "m", "a", "m", ESC, "[", "0", "m">>)

\* A list of three channels, each an int in 0..255 or a float in
\* [0.0, 1.0], at least one of them a float.
HasUnitFloat(rgb) ==
    /\ Len(rgb) = 3
    /\ \A k \in 1..3 : rgb[k].type \in {"int", "float"}
                       /\ VerifyRgbOfAny(rgb[k]) = "ok"
    /\ \E k \in 1..3 : rgb[k].type = "float"

\* The channels with every float f replaced by the int round(f * 255).
RoundedChannels(rgb) ==
    [k \in 1..Len(rgb) |->
        IF rgb[k].type = "float"
        THEN IntVal(RoundHalfEven(255 * rgb[k].num, rgb[k].den))
        ELSE rgb[k]]

RoundedColor(color) ==
    IF color.type = "list" THEN RgbList(RoundedChannels(color.value))
    ELSE color

\* C15: a float channel f in [0.0, 1.0] stands for the int round(f * 255):
\* rgb_to_hex, rgb_to_hsl, rgb_to_hsv, rgb_to_cmyk and colorize_by_rgb
\* return on float channels what they return on the rounded int channels.
C15_FloatChannelIsRounded ==
    /\ (op = "convert_rgb_of_any" /\ HasUnitFloat(arg[2])) =>
            ret = ConvertRgbOfAny(arg[1], RoundedChannels(arg[2]))
    /\ (/\ op = "colorize_by_rgb"
        /\ ret.status = "ok"
        /\ \E k \in 2..3 : arg[k].type = "list" /\ HasUnitFloat(arg[k].value)) =>
            ret = colorize_by_rgb(PlainStr(arg[1]), RoundedColor(arg[2]),
                                  RoundedColor(arg[3]))

\* The first channel of the list that fails a check of rgb_to_hex, 0 when
\* none does: a channel that is not an int or a float in the type pass of
\* normalize_rgb, then an int outside 0..255 or a bool in the verification.
IsNumeric(v) == v.type \in {"int", "float", "bool"}

FirstBadChannel(rgb) ==
    IF \E k \in 1..3 : ~IsNumeric(rgb[k])
    THEN CHOOSE k \in 1..3 : ~IsNumeric(rgb[k])
                             /\ \A j \in 1..(k - 1) : IsNumeric(rgb[j])
    ELSE IF \E k \in 1..3 : VerifyRgbOfAny(normalize_value(rgb[k])) # "ok"
    THEN CHOOSE k \in 1..3 :
            /\ VerifyRgbOfAny(normalize_value(rgb[k])) # "ok"
            /\ \A j \in 1..(k - 1) : VerifyRgbOfAny(normalize_value(rgb[j])) = "ok"
    ELSE 0

\* C16: rgb_to_hex on a list of three channels raises ValueError when the
\* channel that stops it is an int outside 0..255 and TypeError when it is
\* a bool or not a number; it returns a hex string only when no channel
\* fails, so neither case returns one.
C16_RgbToHexErrorKinds ==
    (op = "convert_rgb_of_any" /\ arg[1] = "rgb_to_hex" /\ Len(arg[2]) = 3) =>
        LET bad == FirstBadChannel(arg[2])
        IN  /\ (bad # 0 /\ arg[2][bad].type = "int") => ret = Raise("ValueError")
            /\ (bad # 0 /\ arg[2][bad].type \in {"bool", "str"}) =>
                    ret = Raise("TypeError")
            /\ ret.status = "ok" => bad = 0
            /\ (\E k \in 1..3 : /\ arg[2][k].type = "int"
                                 /\ arg[2][k].val \notin 0..255) =>
                    ret.status \in {"ValueError", "TypeError"}
            /\ (\E k \in 1..3 : arg[2][k].type \in {"bool", "str"}) =>
                    ret.status \in {"ValueError", "TypeError"}

\* rgb_to_hex([0, True, 255]) raised TypeError.
C16_Witness ==
    /\ op = "convert_rgb_of_any"
    /\ arg[1] = "rgb_to_hex"
    /\ Len(arg[2]) = 3
    /\ arg[2][1].type = "int" /\ arg[2][1].val = 0
    /\ arg[2][2].type = "bool"
    /\ arg[2][3].type = "int" /\ arg[2][3].val = 255
    /\ ret = Raise("TypeError")

(***************************************************************************)
(* Properties of the gradients (SpecGradient).                             *)
(***************************************************************************)
\* The parameter characters of an escape sequence ESC [ <digits, ';'> m.
SgrParams == DecDigits \cup {";"}

\* Index of the 'm' that ends the escape sequence starting at index i, 0
\* when none starts there.
CodeEnd(s, i) ==
    IF ~(s[i] = ESC /\ i + 1 <= Len(s) /\ s[i + 1] = "[") THEN 0
    ELSE LET last == RunEnd(s, i + 2, SgrParams)
         IN  IF last + 1 <= Len(s) /\ s[last + 1] = "m" THEN last + 1 ELSE 0

RECURSIVE StripCodes(_, _)
\* The string from index i on with its escape sequences deleted.
StripCodes(s, i) ==
    IF i > Len(s) THEN <<>>
    ELSE IF CodeEnd(s, i) > 0 THEN StripCodes(s, CodeEnd(s, i) + 1)
    ELSE <<s[i]>> \o StripCodes(s, i + 1)

\* The colours are N >= 2 colour objects that hold an rgb code.
ValidColors(colors) ==
    /\ Len(colors) >= 2
    /\ \A k \in 1..Len(colors) :
        /\ colors[k].type = "PredefinedColor"
        /\ get_rgb(colors[k]).status = "ok"

\* C5: for every text and every N >= 2 anchor colours, the output of the
\* multi-anchor gradient contains every character of the text exactly once
\* and in the original order (the characters no coloured span covers are
\* appended unformatted before the final reset): deleting the escape
\* sequences from the output gives back the text.
C5_EveryCharKept ==
    (/\ op = "gradient"
     /\ LayerOf(arg[3]) # <<>>
     /\ ValidColors(arg[2]))
    => /\ ret.status = "ok"
       /\ StripCodes(ret.value, 1) = arg[1]

\* A call of the two-anchor gradient on a text of at least two characters,
\* an accepted layer and two anchors that resolve to rgb triples.
ValidLeftRightCall ==
    /\ op = "gradient_left_right"
    /\ Len(arg[1]) >= 2
    /\ LayerOf(arg[4]) # <<>>
    /\ ResolveAnchor(arg[2]).status = "ok"
    /\ ResolveAnchor(arg[3]).status = "ok"

\* C17: the two-anchor gradient raises ValueError for a text of length 0
\* or 1, whatever the two colours and color_type are: the colours are not
\* resolved (an anchor of a wrong type would raise TypeError) and no string
\* is returned.
C17_ShortTextRejected ==
    (op = "gradient_left_right" /\ Len(arg[1]) < 2) => ret = Raise("ValueError")

\* A text of one character with None as the left colour: ValueError, not
\* the TypeError of the colour.
C17_Witness ==
    /\ op = "gradient_left_right"
    /\ arg[1] = <<"a">>
    /\ arg[2].type = "NoneType"
    /\ LayerOf(arg[4]) # <<>>
    /\ ResolveAnchor(arg[2]) = Raise("TypeError")
    /\ ret = Raise("ValueError")

\* floor(l + (r - l) * i / (n - 1)), computed exactly.
ExactChannel(l, r, i, n) == (l * (n - 1) + (r - l) * i) \div (n - 1)

\* l + (r - l) * i / (n - 1) is an integer.
ExactIsInteger(l, r, i, n) == ((r - l) * i) % (n - 1) = 0

RECURSIVE ExactGradient(_, _, _, _, _)
\* From index i on: the colour code with the exact channels, then txt[i].
ExactGradient(txt, layer, left, right, i) ==
    IF i >= Len(txt) THEN <<>>
    ELSE AnsiColorCode(layer,
                       ExactChannel(left[1], right[1], i, Len(txt)),
                       ExactChannel(left[2], right[2], i, Len(txt)),
                       ExactChannel(left[3], right[3], i, Len(txt)))
            \o <<txt[i + 1]>>
            \o ExactGradient(txt, layer, left, right, i + 1)

\* C6 as stated: for text of length n >= 2 and integer anchors L and R the
\* two-anchor gradient returns, for i = 0..n-1 in order, the colour code of
\* the selected layer whose channel c is floor(L_c + (R_c - L_c) * i /
\* (n - 1)) immediately followed by text[i], and then exactly one ESC[0m as
\* the last thing in the string; hence character 0 carries L and character
\* n-1 carries R.
C6_ExactFloorChannels ==
    ValidLeftRightCall =>
        ret = Ok(ExactGradient(arg[1], LayerOf(arg[4]),
                               ResolveAnchor(arg[2]).value,
                               ResolveAnchor(arg[3]).value, 0)
                    \o END_FORMAT)

\* The channel values the float computation may give at index i: the exact
\* floor, or one less where the exact value is a positive integer past
\* index 0.
ChannelChoices(l, r, i, n) ==
    {ExactChannel(l, r, i, n)} \cup
    (IF i > 0 /\ ExactIsInteger(l, r, i, n) /\ ExactChannel(l, r, i, n) > 0
     THEN {ExactChannel(l, r, i, n) - 1} ELSE {})

\* s holds the string t from index pos on.
HasAt(s, pos, t) ==
    /\ pos + Len(t) - 1 <= Len(s)
    /\ \A k \in 1..Len(t) : s[pos + k - 1] = t[k]

RECURSIVE TruncatedGradient(_, _, _, _, _, _, _)
\* out, from index pos on, is: for each index from i on a colour code whose
\* channels are among ChannelChoices followed by txt[i], and then one reset
\* that ends the string.
TruncatedGradient(out, pos, txt, layer, left, right, i) ==
    IF i >= Len(txt)
    THEN HasAt(out, pos, END_FORMAT) /\ pos + Len(END_FORMAT) - 1 = Len(out)
    ELSE \E r \in ChannelChoices(left[1], right[1], i, Len(txt)),
            g \in ChannelChoices(left[2], right[2], i, Len(txt)),
            b \in ChannelChoices(left[3], right[3], i, Len(txt)) :
            LET item == AnsiColorCode(layer, r, g, b) \o <<txt[i + 1]>>
            IN  /\ HasAt(out, pos, item)
                /\ TruncatedGradient(out, pos + Len(item), txt, layer,
                                     left, right, i + 1)

\* C6, amended: the two-anchor gradient returns, for i = 0..n-1 in order, a
\* colour code of the selected layer immediately followed by text[i], and
\* then exactly one ESC[0m as the last thing in the string.  Character 0
\* carries L.  At an index i > 0 the channel c is floor(L_c + (R_c - L_c) *
\* i / (n - 1)), or one less than that where the exact value is a positive
\* integer (the float step times i can fall just short of it); so
\* character n-1 carries R_c or R_c - 1 in each channel.
C6_TruncatedFloatChannels ==
    ValidLeftRightCall =>
        /\ ret.status = "ok"
        /\ TruncatedGradient(ret.value, 1, arg[1], LayerOf(arg[4]),
                             ResolveAnchor(arg[2]).value,
                             ResolveAnchor(arg[3]).value, 0)

\* A gradient whose last character carries R_c - 1 in some channel.
C6_Witness ==
    /\ ValidLeftRightCall
    /\ ret.status = "ok"
    /\ LET n == Len(arg[1])
           right == ResolveAnchor(arg[3]).value
           last == <<arg[1][n]>> \o END_FORMAT
       IN  \E r \in {right[1], right[1] - 1}, g \in {right[2], right[2] - 1},
              b \in {right[3], right[3] - 1} :
            /\ <<r, g, b>> # right
            /\ r >= 0 /\ g >= 0 /\ b >= 0
            /\ LET tail == AnsiColorCode(LayerOf(arg[4]), r, g, b) \o last
               IN  /\ Len(ret.value) >= Len(tail)
                   /\ HasAt(ret.value, Len(ret.value) - Len(tail) + 1, tail)

(***************************************************************************)
(* Properties of PredefinedColor (SpecColor).                              *)
(***************************************************************************)
\* C20: after any sequence of change_brightness, revert_change,
\* revert_to_original, concatenations and reads on a PredefinedColor,
\* whether they succeed or raise, original_value is the string the object
\* was constructed from.
C20_OriginalValueKept ==
    obj.type = "PredefinedColor" => obj.original_value = constructed

\* Three calls on one object: a brightness change, then revert_to_original
\* twice (the second puts the original into both value and prev_value).
C20_Witness ==
    /\ calls = 3
    /\ op = "revert_to_original"
    /\ prev = Ok(NoneValue)
    /\ obj.type = "PredefinedColor"
    /\ obj.value = constructed
    /\ obj.prev_value = constructed
    /\ obj.original_value = constructed
    /\ constructed = AnsiColorCode(FG, 61, 115, 255)

\* A well-formed 24-bit colour code: ESC[38;2;r;g;bm or ESC[48;2;r;g;bm with
\* r, g, b written as the decimal numerals of integers in 0..255.
WellFormedColorCode(value) ==
    LET rgb == get_rgb(PlainStr(value))
    IN  /\ rgb.status = "ok"
        /\ \A k \in 1..3 : rgb.value[k] \in 0..255
        /\ \E layer \in {FG, BG} :
            value = AnsiColorCode(layer, rgb.value[1], rgb.value[2], rgb.value[3])

\* C21: an object constructed from a well-formed 24-bit colour code holds a
\* well-formed colour code with channels in 0..255 as its value after any
\* sequence of change_brightness (percentages below -100, large, infinite
\* and NaN included), revert_change and revert_to_original.
C21_ValueStaysWellFormed ==
    (obj.type = "PredefinedColor" /\ WellFormedColorCode(constructed))
        => WellFormedColorCode(obj.value)

\* +400 % clamps every channel of (61, 115, 255) at 255, then -150 % clamps
\* every channel at 0.
C21_Witness ==
    /\ calls = 2
    /\ op = "change_brightness"
    /\ arg = <<FloatVal(TRUE, 150, 1)>>
    /\ ret = Ok(NoneValue)
    /\ constructed = AnsiColorCode(FG, 61, 115, 255)
    /\ obj.prev_value = AnsiColorCode(FG, 255, 255, 255)
    /\ obj.value = AnsiColorCode(FG, 0, 0, 0)

\* C22: a change_brightness that returns has put the value held before the
\* call into previous_value, and a revert_change made directly after it
\* puts that value back; after two change_brightness calls the value put
\* back is the one the first call produced (before is the object as it was
\* before the call recorded in op).
C22_BrightnessHistoryDepthOne ==
    [][/\ (op' = "change_brightness" /\ ret'.status = "ok")
            => obj'.prev_value = obj.value
       /\ (op = "change_brightness" /\ ret.status = "ok"
                /\ op' = "revert_change")
            => obj'.value = before.value]_vars

\* +50 %, then -50 %, then revert_change: the value is the one the first
\* call produced, which is not the original.
C22_Witness ==
    /\ calls = 3
    /\ op = "revert_change"
    /\ constructed = AnsiColorCode(FG, 61, 115, 255)
    /\ obj.value = AnsiColorCode(FG, 91, 172, 255)
    /\ obj.prev_value = AnsiColorCode(FG, 45, 86, 127)
    /\ before.value = AnsiColorCode(FG, 45, 86, 127)
    /\ before.prev_value = AnsiColorCode(FG, 91, 172, 255)
    /\ obj.value # obj.original_value

\* C23: revert_change makes value the old previous_value and previous_value
\* the old value and leaves original_value and the other instance as they
\* were; the second of two consecutive revert_change calls gives back the
\* object as it was before the first.
C23_RevertChangeExchanges ==
    [][/\ op' = "revert_change"
            => /\ obj' = [obj EXCEPT !.value = obj.prev_value,
                                     !.prev_value = obj.value]
               /\ ret' = Ok(NoneValue)
               /\ peer' = peer
       /\ (op = "revert_change" /\ op' = "revert_change")
            => obj' = before]_vars

\* +50 %, revert_change, revert_change: the changed value is the value
\* again and the original is the previous value.
C23_Witness ==
    /\ calls = 3
    /\ op = "revert_change"
    /\ constructed = AnsiColorCode(FG, 61, 115, 255)
    /\ obj.value = AnsiColorCode(FG, 91, 172, 255)
    /\ obj.prev_value = constructed
    /\ before.value = constructed
    /\ before.prev_value = AnsiColorCode(FG, 91, 172, 255)

\* C24: revert_to_original, in whatever state the object is, makes value
\* the original value and previous_value the value held before the call;
\* a revert_change made directly after it puts that earlier value back.
C24_RevertToOriginalKeepsHistory ==
    [][/\ op' = "revert_to_original"
            => /\ obj' = [obj EXCEPT !.value = obj.original_value,
                                     !.prev_value = obj.value]
               /\ ret' = Ok(NoneValue)
       /\ (op = "revert_to_original" /\ op' = "revert_change")
            => obj'.value = before.value]_vars

\* +50 % on a background colour, then revert_to_original: the value is the
\* original again and previous_value is the brightened colour.
C24_Witness ==
    /\ calls = 2
    /\ op = "revert_to_original"
    /\ constructed = AnsiColorCode(BG, 0, 128, 0)
    /\ obj.value = constructed
    /\ obj.prev_value = AnsiColorCode(BG, 0, 192, 0)
    /\ before.value = AnsiColorCode(BG, 0, 192, 0)
    /\ before.prev_value = constructed

(***************************************************************************)
(* Properties of the multi-anchor gradient (SpecGradient).                 *)
(***************************************************************************)
\* A call gradient(txt, c1, c2) of the multi-anchor gradient with two
\* colour anchors, a text of 2 characters or more and a layer.
TwoAnchorCall ==
    /\ op = "gradient"
    /\ Len(arg[1]) >= 2
    /\ Len(arg[2]) = 2
    /\ \A k \in 1..2 : /\ arg[2][k].type = "PredefinedColor"
                        /\ get_rgb(arg[2][k]).status = "ok"
    /\ LayerOf(arg[3]) # <<>>

\* C25: with exactly two anchors the multi-anchor gradient returns what the
\* two-anchor gradient returns for the same text, anchors and layer: step
\* (right - left) / (len(txt) - 1), the first character carrying the left
\* anchor and the last the right one.
C25_TwoAnchorsAsLeftRight ==
    TwoAnchorCall
        => ret = gradient_left_right(arg[1], arg[2][1], arg[2][2], arg[3])

\* C26: the multi-anchor gradient, called with two or more colour anchors
\* and a layer, raises ValueError for every text shorter than 2 characters.
C26_MultiAnchorShortTextRejected ==
    (/\ op = "gradient"
     /\ Len(arg[1]) < 2
     /\ Len(arg[2]) >= 2
     /\ \A k \in 1..Len(arg[2]) : /\ arg[2][k].type = "PredefinedColor"
                                   /\ get_rgb(arg[2][k]).status = "ok"
     /\ LayerOf(arg[3]) # <<>>)
        => ret.status = "ValueError"

(***************************************************************************)
(* Range of the channels the conversions to RGB return (SpecMath).         *)
(***************************************************************************)
\* C27: whenever hsl_to_rgb, hsv_to_rgb or cmyk_to_rgb returns (integer
\* mode), each of the three channels is in 0..255.
C27_BackConversionChannelsInRange ==
    (/\ op \in {"hsl_to_rgb", "hsv_to_rgb", "hsl_to_rgb(rgb_to_hsl)",
                "hsv_to_rgb(rgb_to_hsv)", "cmyk_to_rgb(rgb_to_cmyk)"}
     /\ ret.status = "ok")
        => \A k \in 1..3 : ret.value[k] \in 0..255

(***************************************************************************)
(* The layer under change_brightness (SpecColor).                          *)
(***************************************************************************)
\* The layer of a colour code: the two characters after ESC[.
LayerOfCode(value) == SubSeq(value, 3, 4)

\* C28: a change_brightness that returns leaves the layer of the code as it
\* was: 38 stays 38 and 48 stays 48, whatever the digits of the channels.
C28_BrightnessKeepsLayer ==
    (op = "change_brightness" /\ ret.status = "ok")
        => LayerOfCode(obj.value) = LayerOfCode(before.value)

(***************************************************************************)
(* get_colors and an unsupported return_as (SpecCodec).                    *)
(***************************************************************************)
\* C29: get_colors raises ValueError for every return_as that is not a
\* supported form, whatever the text holds.
C29_UnsupportedReturnAsRejected ==
    (op = "get_colors" /\ LowerStrip(arg[2]) \notin SupportedReturnAs)
        => ret.status = "ValueError"

(***************************************************************************)
(* What the calls leave alone (SpecColor).                                 *)
(***************************************************************************)
\* The calls whose self is the second instance.
PeerOps ==
    {"peer.change_brightness", "peer.revert_change",
     "peer.revert_to_original", "peer.add"}

\* The calls on the first instance that only read it.
ReadingOps ==
    {"get_rgb", "get_hex", "str", "add", "radd", "value", "previous_value",
     "original_value"}

\* C30: get_rgb, get_hex, str(), the concatenations and a change_brightness
\* that raises leave value, previous_value and original_value of the
\* instance as they were; a call on one instance leaves the other instance
\* as it was, also when the other instance is an operand of the call.
C30_CallsLeaveTheRestAlone ==
    [][/\ op' \in ReadingOps => obj' = obj
       /\ (op' = "change_brightness" /\ ret'.status # "ok") => obj' = obj
       /\ (op' = "peer.change_brightness" /\ ret'.status # "ok")
            => peer' = peer
       /\ op' = "peer.add" => peer' = peer
       /\ op' \in PeerOps => obj' = obj
       /\ op' \notin PeerOps => peer' = peer]_vars

\* change_brightness(50.0) on an object constructed from two concatenated
\* colour codes raises ValueError and the object is as constructed.
C30_Witness ==
    /\ op = "change_brightness"
    /\ arg[1] = FloatVal(FALSE, 50, 1)
    /\ ret.status = "ValueError"
    /\ constructed = AnsiColorCode(FG, 61, 115, 255)
                        \o AnsiColorCode(BG, 0, 128, 0)
    /\ obj = PredefinedColor(constructed)
    /\ before = obj

=========================================================================
